---- MODULE Spec2Model ----
(***************************************************************************)
(* State-machine model of the jakebot task pipeline: the task status       *)
(* tracker and lifecycle manager (workflow/task_status.py,                 *)
(* workflow/task_lifecycle.py), the system synchronizer                    *)
(* (sync/system_sync.py), the transaction manager                          *)
(* (workflow/transaction.py), the retry wrapper (utils/retry.py), the      *)
(* call workflow (workflow/workflow_manager.py, workflow/task_manager.py,  *)
(* workflow/manager.py), the commitment detector                           *)
(* (ai_agents/commitment_detector.py) and the pattern registry             *)
(* (ai_agents/patterns/registry.py).                                       *)
(*                                                                         *)
(* Every coroutine is cut at its awaits: the code between two awaits runs  *)
(* atomically on the asyncio event loop and is one action here.            *)
(***************************************************************************)
EXTENDS Integers, Sequences, FiniteSets, TLC

VARIABLES
    tasks,          \* TaskStatusTracker.tasks: task id -> status record
    calls,          \* the lifecycle coroutines (update_task / cancel_task), one per slot
    backend_calls,  \* update_task requests the lifecycle manager sent to the backend clients
    nops,           \* number of lifecycle-side operations started so far
    task_mappings,  \* SystemSynchronizer.task_mappings: primary task id -> mapping
    store,          \* the tasks each backend system holds: system -> (task id -> task)
    sync_calls,     \* the sync_task coroutines, one per slot
    sync_log,       \* create_task / update_task calls of the synchronizer that have returned
    nsync,          \* number of sync_task calls started so far
    completed_steps,\* TransactionManager.completed_steps, per manager
    tx,             \* the execute_step coroutine of each manager
    rollback_log,   \* the compensating actions each manager has invoked, in order
    world,          \* what the steps of each manager have created in the backends
    retry,          \* the coroutine of the with_retry wrapper
    nretry,         \* number of calls of the wrapper so far
    verify_calls,   \* the verify_sync coroutines, one per slot
    nverify,        \* number of verify_sync calls started so far
    nedit,          \* number of changes made to backend tasks from outside so far
    flow,           \* the handle_new_call coroutine of the workflow manager
    nflow,          \* number of handle_new_call calls started so far
    detector,       \* a call of detect_commitments: the lines of its transcript and what it returned
    stats,          \* PatternRegistry._stats: pattern id -> statistics
    problematic,    \* the last call of get_underperforming_patterns and its result
    observed,       \* the observations recorded for the test category so far
    pcall           \* the process_call coroutine the retry wrapper awaits

lifecycleVars == <<tasks, calls, backend_calls, nops>>

syncVars == <<task_mappings, store, sync_calls, sync_log, nsync>>

txVars == <<completed_steps, tx, rollback_log, world>>

retryVars == <<retry, nretry>>

verifyVars == <<verify_calls, nverify, nedit>>

flowVars == <<flow, nflow>>

detVars == <<detector>>

regVars == <<stats, problematic, observed>>

pcVars == <<pcall>>

vars == <<lifecycleVars, syncVars, txVars, retryVars, verifyVars, flowVars, detVars, regVars, pcVars>>

----------------------------------------------------------------------------
(* Bounds of the model *)

\* operations (tracker calls and lifecycle calls) started in one behaviour
MaxOps == 3

\* sync_task calls started in one behaviour
MaxSync == 3

\* execute_step calls started in one behaviour, over all managers
MaxSteps == 3

\* the largest max_attempts of a retry configuration
MaxAttempts == 3

\* calls of the with_retry wrapper in one behaviour
MaxRetryCalls == 2

\* verify_sync calls started in one behaviour
MaxVerify == 2

\* changes made to backend tasks from outside the synchronizer in one behaviour
MaxEdits == 1

\* handle_new_call calls started in one behaviour
MaxCalls == 1

\* commitments the detector hands to one handle_new_call
MaxCommitments == 2

\* lines with a pattern match in one transcript
MaxMatches == 2

\* record_match calls made on the registry directly in one behaviour
MaxObservations == 11

TaskIds == {"t1", "t2"}
Procs == {"c1", "c2"}
Systems == {"NowCerts", "Close"}
Notes == {"None", "note"}

NoStatus == "NoStatus"      \* the updates dict has no 'status' key

----------------------------------------------------------------------------
(* workflow/task_status.py *)

\* the members of the TaskStatus enum
TaskStatus == {"PENDING", "IN_PROGRESS", "COMPLETED", "FAILED", "NEEDS_APPROVAL", "REJECTED"}

\* attribute access TaskStatus.<name>: a member, or AttributeError
EnumLookup(name) == IF name \in TaskStatus THEN name ELSE "AttributeError"

\* the record add_task stores for a task id
NewTaskRecord(system) ==
    [ status |-> "PENDING",
      system |-> system,
      status_history |-> << [status |-> "PENDING", notes |-> "absent"] >> ]

\* tracker.tasks after add_task(task_id, {system: ...}): the entry is (over)written
add_task(tr, task_id, system) ==
    [ i \in DOMAIN tr \cup {task_id} |->
        IF i = task_id THEN NewTaskRecord(system) ELSE tr[i] ]

\* update_status with the append to status_history left out
update_status_no_history(tr, task_id, status, notes) ==
    [ tr EXCEPT ![task_id] = [ @ EXCEPT !.status = status ] ]

\* tracker.tasks after a successful update_status(task_id, status, notes)
update_status(tr, task_id, status, notes) ==
    [ tr EXCEPT ![task_id] =
        [ @ EXCEPT !.status = status,
                   !.status_history = Append(@, [status |-> status, notes |-> notes]) ] ]

----------------------------------------------------------------------------
(* workflow/task_lifecycle.py *)

\* the names the valid_transitions dict literal is built from
valid_transitions ==
    [ PENDING        |-> {"IN_PROGRESS", "CANCELLED"},
      IN_PROGRESS    |-> {"COMPLETED", "FAILED", "NEEDS_APPROVAL", "CANCELLED"},
      NEEDS_APPROVAL |-> {"IN_PROGRESS", "COMPLETED", "REJECTED", "CANCELLED"} ]

\* _validate_state_transition with the check left out
validate_state_transition_skipped(current_status, new_status) == "ok"

\* _validate_state_transition: "ok", or the exception it raises. Building the
\* dict literal looks every name up in TaskStatus first.
validate_state_transition(current_status, new_status) ==
    LET names == DOMAIN valid_transitions
                 \cup UNION {valid_transitions[k] : k \in DOMAIN valid_transitions}
        allowed == IF current_status \in DOMAIN valid_transitions
                   THEN valid_transitions[current_status] ELSE {}
    IN  IF \E n \in names : EnumLookup(n) = "AttributeError" THEN "AttributeError"
        ELSE IF new_status \in allowed THEN "ok"
        ELSE "ValidationError"

\* the client the lifecycle manager dispatches to for a tracked task
ClientOf(system) == IF system = "NowCerts" THEN "nowcerts_client" ELSE "close_client"

IdleCall ==
    [ pc |-> "idle", op |-> "none", task |-> "none", status |-> NoStatus,
      notes |-> "None", from |-> "none", cur |-> "live", system |-> "none",
      raised |-> "none", cause |-> "none", peers |-> {} ]

\* a coroutine that ended by raising `raised` (caused by `cause`)
Raise(call, raised, cause) == [ call EXCEPT !.pc = "done", !.raised = raised, !.cause = cause ]

\* slot c is taken by a new call: its old record is forgotten by the others
Forget(c) == [ d \in Procs |-> [ calls[d] EXCEPT !.peers = @ \ {c} ] ]

Awaiting == { d \in Procs : calls[d].pc = "await" }

\* the exception class update_task / cancel_task turn any failure into
WrapOf(op) == IF op = "update_task" THEN "TaskUpdateError" ELSE "TaskError"

\* validation.py

\* the task_data dicts create_task is called with: whether the four required
\* fields are there with their types, the priority, the approval flag, whether the
\* description is longer than 1000 characters; and the id the backend answers with
TaskData ==
    [ fields_ok : BOOLEAN, priority : {"normal", "high"}, approval_required : BOOLEAN,
      too_long : BOOLEAN, system : Systems, id : TaskIds ]

\* the names in scope in the body of the static method validate_task
validate_task_names ==
    { "task_data", "required_fields", "field", "expected_type",
      "Dict", "Any", "List", "datetime", "ValidationError",
      "TaskValidator", "CommitmentValidator" }

\* TaskValidator.validate_task: "ok", or the exception it raises
validate_task(task_data) ==
    IF ~task_data.fields_ok THEN "ValidationError"
    ELSE IF task_data.priority = "high" /\ ~task_data.approval_required
         THEN "ValidationError"
    ELSE IF "self" \notin validate_task_names THEN "NameError"
    ELSE IF task_data.too_long THEN "ValidationError"
    ELSE "ok"

\* update_task up to its await of the backend call (lines 75-96 and the handlers)
UpdateStart(c, task_id, status, notes) ==
    /\ UNCHANGED <<syncVars, txVars, retryVars, verifyVars, flowVars, detVars, regVars, pcVars>>
    /\ calls[c].pc \in {"idle", "done"}
    /\ nops < MaxOps
    /\ nops' = nops + 1
    /\ UNCHANGED tasks
    /\ LET base == [ IdleCall EXCEPT !.op = "update_task", !.task = task_id,
                                     !.status = status, !.notes = notes,
                                     !.peers = Awaiting \ {c} ]
           others == Forget(c)
       IN  IF task_id \notin DOMAIN tasks
           THEN \* get_task_status raises ValueError, caught by `except Exception`
                /\ calls' = [ others EXCEPT ![c] = Raise(base, "TaskUpdateError", "ValueError") ]
                /\ UNCHANGED backend_calls
           ELSE LET cur == tasks[task_id]
                    v == IF status = NoStatus THEN "ok"
                         ELSE validate_state_transition(cur.status, status)
                    b == [ base EXCEPT !.from = cur.status ]
                IN  IF v # "ok"
                    THEN /\ calls' = [ others EXCEPT ![c] = Raise(b, "TaskUpdateError", v) ]
                         /\ UNCHANGED backend_calls
                    ELSE /\ calls' = [ others EXCEPT ![c] = [ b EXCEPT !.pc = "await" ] ]
                         /\ backend_calls' = Append(backend_calls,
                                [ op |-> "update_task", client |-> ClientOf(cur.system),
                                  task |-> task_id, status |-> status, notes |-> notes ])

\* cancel_task up to its await of the backend call (lines 116-136 and the handler)
CancelStart(c, task_id, reason) ==
    /\ UNCHANGED <<syncVars, txVars, retryVars, verifyVars, flowVars, detVars, regVars, pcVars>>
    /\ calls[c].pc \in {"idle", "done"}
    /\ nops < MaxOps
    /\ nops' = nops + 1
    /\ UNCHANGED tasks
    /\ LET base == [ IdleCall EXCEPT !.op = "cancel_task", !.task = task_id,
                                     !.notes = reason, !.peers = Awaiting \ {c} ]
           others == Forget(c)
           cancelled == EnumLookup("CANCELLED")
       IN  IF task_id \notin DOMAIN tasks
           THEN /\ calls' = [ others EXCEPT ![c] = Raise(base, "TaskError", "ValueError") ]
                /\ UNCHANGED backend_calls
           ELSE LET cur == tasks[task_id]
                    b == [ base EXCEPT !.from = cur.status,
                                        !.status = IF cancelled = "AttributeError"
                                                   THEN NoStatus ELSE cancelled ]
                IN  IF cancelled = "AttributeError"
                    THEN /\ calls' = [ others EXCEPT ![c] = Raise(b, "TaskError", "AttributeError") ]
                         /\ UNCHANGED backend_calls
                    ELSE /\ calls' = [ others EXCEPT ![c] = [ b EXCEPT !.pc = "await" ] ]
                         /\ backend_calls' = Append(backend_calls,
                                [ op |-> "update_task", client |-> ClientOf(cur.system),
                                  task |-> task_id, status |-> cancelled, notes |-> reason ])

\* tracker.tasks gets a new dict for task_id: the calls in flight that hold the
\* old dict keep reading the status it had
Replaced(task_id) ==
    [ d \in Procs |->
        IF calls[d].pc = "await" /\ calls[d].op # "create_task"
           /\ calls[d].task = task_id
           /\ calls[d].cur = "live" /\ task_id \in DOMAIN tasks
        THEN [ calls[d] EXCEPT !.cur = tasks[task_id].status ]
        ELSE calls[d] ]

\* create_task up to its await of the backend creation (lines 29-43 and the
\* handler, lines 63-69)
CreateStart(c, task_data) ==
    /\ UNCHANGED <<syncVars, txVars, retryVars, verifyVars, flowVars, detVars, regVars, pcVars>>
    /\ calls[c].pc \in {"idle", "done"}
    /\ nops < MaxOps
    /\ nops' = nops + 1
    /\ UNCHANGED tasks
    /\ LET base == [ IdleCall EXCEPT !.op = "create_task", !.task = task_data.id,
                                     !.system = task_data.system,
                                     !.peers = Awaiting \ {c} ]
           others == Forget(c)
           v == validate_task(task_data)
       IN  IF v # "ok"
           THEN /\ calls' = [ others EXCEPT ![c] = Raise(base, "TaskError", v) ]
                /\ UNCHANGED backend_calls
           ELSE /\ calls' = [ others EXCEPT ![c] = [ base EXCEPT !.pc = "await" ] ]
                /\ backend_calls' = Append(backend_calls,
                       [ op |-> "create_task", client |-> ClientOf(task_data.system),
                         task |-> task_data.id, status |-> NoStatus, notes |-> "None" ])

\* the status current_task['status'] yields for call c: current_task is the dict
\* get_task_status returned, which add_task may have replaced in the meantime
CurrentStatus(c) ==
    IF calls[c].cur = "live" THEN tasks[calls[c].task].status ELSE calls[c].cur

\* update_task with the tracker written whether or not the backend call returned
Resume_tracker_first(c, ok) ==
    /\ UNCHANGED <<syncVars, txVars, retryVars, verifyVars, flowVars, detVars, regVars, pcVars>>
    /\ calls[c].pc = "await"
    /\ UNCHANGED <<backend_calls, nops>>
    /\ LET new == IF calls[c].status = NoStatus THEN CurrentStatus(c)
                  ELSE calls[c].status
       IN  tasks' = update_status(tasks, calls[c].task, new, calls[c].notes)
    /\ calls' = [ calls EXCEPT ![c] =
                    IF ok THEN [ @ EXCEPT !.pc = "done" ]
                    ELSE Raise(@, WrapOf(@.op), "APIError") ]

\* create_task / update_task / cancel_task from the return of the backend call
\* to the end (lines 45-69, 98-112, 138-149); `ok` is whether the backend call
\* returned
Resume(c, ok) ==
    /\ UNCHANGED <<syncVars, txVars, retryVars, verifyVars, flowVars, detVars, regVars, pcVars>>
    /\ calls[c].pc = "await"
    /\ UNCHANGED <<backend_calls, nops>>
    /\ IF ~ok
       THEN /\ calls' = [ calls EXCEPT ![c] = Raise(@, WrapOf(@.op), "APIError") ]
            /\ UNCHANGED tasks
       ELSE IF calls[c].op = "create_task"
       THEN \* lines 45-61: the created task is tracked under the id it came back with
            /\ tasks' = add_task(tasks, calls[c].task, calls[c].system)
            /\ calls' = [ Replaced(calls[c].task) EXCEPT ![c] = [ @ EXCEPT !.pc = "done" ] ]
       ELSE LET new == IF calls[c].status = NoStatus THEN CurrentStatus(c)
                       ELSE calls[c].status
            IN  /\ tasks' = update_status(tasks, calls[c].task, new, calls[c].notes)
                /\ calls' = [ calls EXCEPT ![c] = [ @ EXCEPT !.pc = "done" ] ]

\* TaskStatusTracker.add_task called on the manager's tracker
AddTask(task_id, system) ==
    /\ UNCHANGED <<syncVars, txVars, retryVars, verifyVars, flowVars, detVars, regVars, pcVars>>
    /\ nops < MaxOps
    /\ nops' = nops + 1
    /\ tasks' = add_task(tasks, task_id, system)
    /\ calls' = Replaced(task_id)
    /\ UNCHANGED backend_calls

\* TaskStatusTracker.update_status called on the manager's tracker
TrackerUpdateStatus(task_id, status, notes) ==
    /\ UNCHANGED <<syncVars, txVars, retryVars, verifyVars, flowVars, detVars, regVars, pcVars>>
    /\ nops < MaxOps
    /\ nops' = nops + 1
    /\ tasks' = IF task_id \in DOMAIN tasks
                THEN update_status(tasks, task_id, status, notes)
                ELSE tasks      \* ValueError
    /\ UNCHANGED <<calls, backend_calls>>

LifecycleInit ==
    /\ tasks = << >>
    /\ calls = [ c \in Procs |-> IdleCall ]
    /\ backend_calls = << >>
    /\ nops = 0

\* the lifecycle manager's own operations, on a tracker filled through add_task
ManagerNext ==
    \/ \E t \in TaskIds, s \in Systems : AddTask(t, s)
    \/ \E c \in Procs, t \in TaskIds, s \in TaskStatus \cup {NoStatus}, n \in Notes :
          UpdateStart(c, t, s, n)
    \/ \E c \in Procs, t \in TaskIds : CancelStart(c, t, "note")
    \/ \E c \in Procs, task_data \in TaskData : CreateStart(c, task_data)
    \/ \E c \in Procs, ok \in BOOLEAN : Resume(c, ok)

\* the same, with the tracker's update_status also called directly
LifecycleNext ==
    \/ ManagerNext
    \/ \E t \in TaskIds, s \in TaskStatus, n \in Notes : TrackerUpdateStatus(t, s, n)

----------------------------------------------------------------------------
(* workflow/task_manager.py *)

\* update_task_status up to its await of the client's update_task (lines 59-72
\* and the handler, lines 77-79, which raises the exception on)
UpdateTaskStatusStart(c, task_id, status, notes) ==
    /\ UNCHANGED <<syncVars, txVars, retryVars, verifyVars, flowVars, detVars, regVars, pcVars>>
    /\ calls[c].pc \in {"idle", "done"}
    /\ nops < MaxOps
    /\ nops' = nops + 1
    /\ UNCHANGED tasks
    /\ LET base == [ IdleCall EXCEPT !.op = "update_task_status", !.task = task_id,
                                     !.status = status, !.notes = notes,
                                     !.peers = Awaiting \ {c} ]
           others == Forget(c)
       IN  IF task_id \notin DOMAIN tasks
           THEN \* get_task_status raises ValueError
                /\ calls' = [ others EXCEPT ![c] = Raise(base, "ValueError", "ValueError") ]
                /\ UNCHANGED backend_calls
           ELSE /\ calls' = [ others EXCEPT ![c] =
                                [ base EXCEPT !.pc = "await", !.from = tasks[task_id].status ] ]
                /\ backend_calls' = Append(backend_calls,
                       [ op |-> "update_task", client |-> ClientOf(tasks[task_id].system),
                         task |-> task_id, status |-> status, notes |-> "None" ])

\* update_task_status from the return of the client's update_task to the end
\* (lines 74-79); `ok` is whether the client's call returned
UpdateTaskStatusResume(c, ok) ==
    /\ UNCHANGED <<syncVars, txVars, retryVars, verifyVars, flowVars, detVars, regVars, pcVars>>
    /\ calls[c].pc = "await"
    /\ calls[c].op = "update_task_status"
    /\ UNCHANGED <<backend_calls, nops>>
    /\ IF ~ok
       THEN /\ calls' = [ calls EXCEPT ![c] = Raise(@, "APIError", "APIError") ]
            /\ UNCHANGED tasks
       ELSE /\ tasks' = update_status(tasks, calls[c].task, calls[c].status, calls[c].notes)
            /\ calls' = [ calls EXCEPT ![c] = [ @ EXCEPT !.pc = "done" ] ]

\* the task manager's update_task_status, on a tracker filled through add_task
TaskManagerNext ==
    \/ \E t \in TaskIds, s \in Systems : AddTask(t, s)
    \/ \E c \in Procs, t \in TaskIds, s \in TaskStatus, n \in Notes :
          UpdateTaskStatusStart(c, t, s, n)
    \/ \E c \in Procs, ok \in BOOLEAN : UpdateTaskStatusResume(c, ok)

----------------------------------------------------------------------------
(* sync/system_sync.py *)

PrimaryIds == {<<"p", 1>>, <<"p", 2>>}

\* a task as a backend system returns it
BackendTask(status, linked) ==
    [ type |-> "policy_update", description |-> "d", status |-> status,
      due_date |-> "due", linked_task_id |-> linked ]

\* every task id a backend system has handed out for a created task
CreatedIds == UNION { { i \in DOMAIN store[s] : i[1] = "m" } : s \in Systems }

\* the id the backend gives the next task it creates
FreshId == <<"m", Cardinality(CreatedIds) + 1>>

\* all ids sync_task may be called with: the seeded tasks and the created ones
KnownIds == PrimaryIds \cup CreatedIds

\* lines 25-32: the other system of the pair
SecondaryOf(primary_system) == IF primary_system = "NowCerts" THEN "Close" ELSE "NowCerts"

\* the mapping check with its answer fixed to "no mapping"
HasMappingNever(primary_task_id) == FALSE

\* line 35: `primary_task_id in self.task_mappings`
HasMapping(primary_task_id) == primary_task_id \in DOMAIN task_mappings

IdleSync ==
    [ pc |-> "idle", task |-> <<"none", 0>>, primary_system |-> "none",
      snap |-> "none", target |-> <<"none", 0>>, result |-> "none" ]

SyncInFlight == { d \in Procs : sync_calls[d].pc \in {"get", "create", "update"} }

\* sync_task up to the await of get_task (lines 23-30)
SyncStart(c, primary_task_id, primary_system) ==
    /\ UNCHANGED <<lifecycleVars, txVars, retryVars, verifyVars, flowVars, detVars, regVars, pcVars>>
    /\ sync_calls[c].pc \in {"idle", "done"}
    /\ nsync < MaxSync
    /\ nsync' = nsync + 1
    /\ sync_calls' = [ sync_calls EXCEPT ![c] =
                         [ IdleSync EXCEPT !.pc = "get", !.task = primary_task_id,
                                           !.primary_system = primary_system ] ]
    /\ UNCHANGED <<task_mappings, store, sync_log>>

\* from the return of get_task to the await of create_task or update_task
\* (lines 26-43, 53-62); `ok` is whether the backend call returned
SyncGot(c, ok) ==
    /\ UNCHANGED <<lifecycleVars, txVars, retryVars, verifyVars, flowVars, detVars, regVars, pcVars>>
    /\ sync_calls[c].pc = "get"
    /\ UNCHANGED <<task_mappings, store, sync_log, nsync>>
    /\ LET call == sync_calls[c]
           sys == IF call.primary_system = "NowCerts" THEN "NowCerts" ELSE "Close"
       IN  IF ~ok \/ call.task \notin DOMAIN store[sys]
           THEN sync_calls' = [ sync_calls EXCEPT ![c] =
                                  [ @ EXCEPT !.pc = "done", !.result = "SyncError" ] ]
           ELSE IF ~HasMapping(call.task)
           THEN sync_calls' = [ sync_calls EXCEPT ![c] =
                                  [ @ EXCEPT !.pc = "create", !.snap = store[sys][call.task] ] ]
           ELSE sync_calls' = [ sync_calls EXCEPT ![c] =
                                  [ @ EXCEPT !.pc = "update", !.snap = store[sys][call.task],
                                             !.target = task_mappings[call.task].secondary_task_id ] ]

\* from the return of create_task to the end (lines 45-52, 66, 68-79)
SyncCreated(c, ok) ==
    /\ UNCHANGED <<lifecycleVars, txVars, retryVars, verifyVars, flowVars, detVars, regVars, pcVars>>
    /\ sync_calls[c].pc = "create"
    /\ UNCHANGED nsync
    /\ LET call == sync_calls[c]
           sec == SecondaryOf(call.primary_system)
           new == FreshId
           entry == [ op |-> "create_task", system |-> sec, primary |-> call.task,
                      id |-> new, ok |-> ok ]
       IN  /\ sync_log' = Append(sync_log, entry)
           /\ IF ~ok
              THEN /\ sync_calls' = [ sync_calls EXCEPT ![c] =
                                        [ @ EXCEPT !.pc = "done", !.result = "SyncError" ] ]
                   /\ UNCHANGED <<task_mappings, store>>
              ELSE /\ store' = [ store EXCEPT ![sec] =
                                   [ i \in DOMAIN @ \cup {new} |->
                                       IF i = new
                                       THEN [ BackendTask(call.snap.status, call.task)
                                                EXCEPT !.description = call.snap.description ]
                                       ELSE @[i] ] ]
                   /\ task_mappings' =
                         [ p \in DOMAIN task_mappings \cup {call.task} |->
                             IF p = call.task
                             THEN [ primary_system |-> call.primary_system,
                                    primary_task_id |-> call.task,
                                    secondary_system |-> sec,
                                    secondary_task_id |-> new,
                                    last_synced |-> Len(sync_log) + 1 ]
                             ELSE task_mappings[p] ]
                   /\ sync_calls' = [ sync_calls EXCEPT ![c] =
                                        [ @ EXCEPT !.pc = "done", !.result = "mapping" ] ]

\* the update branch with last_synced refreshed whether or not update_task returned
SyncUpdated_stamp_first(c, ok) ==
    /\ UNCHANGED <<lifecycleVars, txVars, retryVars, verifyVars, flowVars, detVars, regVars, pcVars>>
    /\ sync_calls[c].pc = "update"
    /\ UNCHANGED nsync
    /\ LET call == sync_calls[c]
           sec == SecondaryOf(call.primary_system)
           done == ok /\ call.target \in DOMAIN store[sec]
           entry == [ op |-> "update_task", system |-> sec, primary |-> call.task,
                      id |-> call.target, ok |-> done ]
       IN  /\ sync_log' = Append(sync_log, entry)
           /\ task_mappings' = [ task_mappings EXCEPT ![call.task].last_synced =
                                                          Len(sync_log) + 1 ]
           /\ IF ~done
              THEN /\ sync_calls' = [ sync_calls EXCEPT ![c] =
                                        [ @ EXCEPT !.pc = "done", !.result = "SyncError" ] ]
                   /\ UNCHANGED store
              ELSE /\ store' = [ store EXCEPT ![sec][call.target] =
                                   [ @ EXCEPT !.status = call.snap.status,
                                              !.description = call.snap.description ] ]
                   /\ sync_calls' = [ sync_calls EXCEPT ![c] =
                                        [ @ EXCEPT !.pc = "done", !.result = "mapping" ] ]

\* from the return of update_task to the end (lines 64-66, 68-79). `mapping` is
\* the dict read before the await: the refresh of last_synced is lost when the
\* table holds another dict by now
SyncUpdated(c, ok) ==
    /\ UNCHANGED <<lifecycleVars, txVars, retryVars, verifyVars, flowVars, detVars, regVars, pcVars>>
    /\ sync_calls[c].pc = "update"
    /\ UNCHANGED nsync
    /\ LET call == sync_calls[c]
           sec == SecondaryOf(call.primary_system)
           done == ok /\ call.target \in DOMAIN store[sec]
           entry == [ op |-> "update_task", system |-> sec, primary |-> call.task,
                      id |-> call.target, ok |-> done ]
       IN  /\ sync_log' = Append(sync_log, entry)
           /\ IF ~done
              THEN /\ sync_calls' = [ sync_calls EXCEPT ![c] =
                                        [ @ EXCEPT !.pc = "done", !.result = "SyncError" ] ]
                   /\ UNCHANGED <<task_mappings, store>>
              ELSE /\ store' = [ store EXCEPT ![sec][call.target] =
                                   [ @ EXCEPT !.status = call.snap.status,
                                              !.description = call.snap.description ] ]
                   /\ task_mappings' =
                         IF task_mappings[call.task].secondary_task_id = call.target
                         THEN [ task_mappings EXCEPT ![call.task].last_synced =
                                                        Len(sync_log) + 1 ]
                         ELSE task_mappings
                   /\ sync_calls' = [ sync_calls EXCEPT ![c] =
                                        [ @ EXCEPT !.pc = "done", !.result = "mapping" ] ]

SyncInit ==
    /\ task_mappings = << >>
    /\ store = [ s \in Systems |->
                   IF s = "NowCerts"
                   THEN [ i \in PrimaryIds |-> BackendTask("pending", "none") ]
                   ELSE [ i \in {<<"p", 1>>} |-> BackendTask("open", "none") ] ]
    /\ sync_calls = [ c \in Procs |-> IdleSync ]
    /\ sync_log = << >>
    /\ nsync = 0

\* concurrently scheduled sync_task workflows
SyncNext ==
    \/ \E c \in Procs, p \in KnownIds, s \in Systems : SyncStart(c, p, s)
    \/ \E c \in Procs, ok \in BOOLEAN : SyncGot(c, ok)
    \/ \E c \in Procs, ok \in BOOLEAN : SyncCreated(c, ok)
    \/ \E c \in Procs, ok \in BOOLEAN : SyncUpdated(c, ok)

\* sync_task calls made one after the other
SyncSeqNext ==
    \/ \E c \in Procs, p \in KnownIds, s \in Systems : SyncInFlight = {} /\ SyncStart(c, p, s)
    \/ \E c \in Procs, ok \in BOOLEAN : SyncGot(c, ok)
    \/ \E c \in Procs, ok \in BOOLEAN : SyncCreated(c, ok)
    \/ \E c \in Procs, ok \in BOOLEAN : SyncUpdated(c, ok)

----------------------------------------------------------------------------
(* sync/system_sync.py: verify_sync, and the backends changing under it *)

\* the values a task's status and description take when changed from outside
EditStatuses == {"pending", "completed"}
EditDescriptions == {"d", "e"}

\* the comparison with the description left out
fields_equal_status_only(primary_task, secondary_task) ==
    primary_task.status = secondary_task.status

\* lines 97-100: the critical fields of the two fetched tasks
fields_equal(primary_task, secondary_task) ==
    /\ primary_task.status = secondary_task.status
    /\ primary_task.description = secondary_task.description

\* line 79: the SyncError is built from a message alone, its details are empty
SyncErrorDetails == {}

IdleVerify ==
    [ pc |-> "idle", task |-> <<"none", 0>>, mapping |-> "none",
      primary_task |-> "none", result |-> "none", edits |-> 0 ]

VerifyInFlight == { d \in Procs : verify_calls[d].pc \in {"get_primary", "get_secondary"} }

\* verify_sync up to the await of the primary get_task (lines 83-90, 93)
VerifyStart(c, task_id) ==
    /\ UNCHANGED <<lifecycleVars, syncVars, txVars, retryVars, flowVars, detVars, regVars, pcVars>>
    /\ verify_calls[c].pc \in {"idle", "done"}
    /\ nverify < MaxVerify
    /\ nverify' = nverify + 1
    /\ UNCHANGED nedit
    /\ IF ~HasMapping(task_id)
       THEN verify_calls' = [ verify_calls EXCEPT ![c] =
                                [ IdleVerify EXCEPT !.pc = "done", !.task = task_id,
                                                    !.result = "False", !.edits = nedit ] ]
       ELSE verify_calls' = [ verify_calls EXCEPT ![c] =
                                [ IdleVerify EXCEPT !.pc = "get_primary", !.task = task_id,
                                                    !.mapping = task_mappings[task_id],
                                                    !.edits = nedit ] ]

\* from the return of the primary get_task to the await of the secondary one
\* (lines 90-91, 93-94); a failure of the client leaves verify_sync as it is
VerifyGotPrimary(c, ok) ==
    /\ UNCHANGED <<lifecycleVars, syncVars, txVars, retryVars, flowVars, detVars, regVars, pcVars>>
    /\ verify_calls[c].pc = "get_primary"
    /\ UNCHANGED <<nverify, nedit>>
    /\ LET call == verify_calls[c]
           m == call.mapping
       IN  IF ~ok \/ m.primary_task_id \notin DOMAIN store[m.primary_system]
           THEN verify_calls' = [ verify_calls EXCEPT ![c] =
                                    [ @ EXCEPT !.pc = "done", !.result = "BackendError" ] ]
           ELSE verify_calls' = [ verify_calls EXCEPT ![c] =
                                    [ @ EXCEPT !.pc = "get_secondary",
                                               !.primary_task =
                                                   store[m.primary_system][m.primary_task_id] ] ]

\* from the return of the secondary get_task to the end (lines 91, 94, 97-100)
VerifyGotSecondary(c, ok) ==
    /\ UNCHANGED <<lifecycleVars, syncVars, txVars, retryVars, flowVars, detVars, regVars, pcVars>>
    /\ verify_calls[c].pc = "get_secondary"
    /\ UNCHANGED <<nverify, nedit>>
    /\ LET call == verify_calls[c]
           m == call.mapping
       IN  IF ~ok \/ m.secondary_task_id \notin DOMAIN store[m.secondary_system]
           THEN verify_calls' = [ verify_calls EXCEPT ![c] =
                                    [ @ EXCEPT !.pc = "done", !.result = "BackendError" ] ]
           ELSE verify_calls' = [ verify_calls EXCEPT ![c] =
                                    [ @ EXCEPT !.pc = "done",
                                               !.result =
                                                   IF fields_equal(call.primary_task,
                                                        store[m.secondary_system][m.secondary_task_id])
                                                   THEN "True" ELSE "False" ] ]

\* a user of a backend system changes a task there: the synchronizer is not told
BackendEdit(system, id, status, description) ==
    /\ UNCHANGED <<lifecycleVars, txVars, retryVars, flowVars, detVars, regVars, pcVars>>
    /\ nedit < MaxEdits
    /\ id \in DOMAIN store[system]
    /\ <<store[system][id].status, store[system][id].description>> # <<status, description>>
    /\ nedit' = nedit + 1
    /\ store' = [ store EXCEPT ![system][id] =
                    [ @ EXCEPT !.status = status, !.description = description ] ]
    /\ UNCHANGED <<task_mappings, sync_calls, sync_log, nsync, verify_calls, nverify>>

VerifyInit ==
    /\ verify_calls = [ c \in Procs |-> IdleVerify ]
    /\ nverify = 0
    /\ nedit = 0

\* the ids verify_sync is asked about: a seeded task and its mirror
VerifyIds == {<<"p", 1>>, <<"m", 1>>}

\* sync_task and verify_sync calls made one after the other from one caller,
\* for a task NowCerts owns, the backends changing at any time
VerifyNext ==
    \/ SyncInFlight = {} /\ VerifyInFlight = {} /\ SyncStart("c1", <<"p", 1>>, "NowCerts")
    \/ \E c \in Procs, ok \in BOOLEAN : SyncGot(c, ok)
    \/ \E c \in Procs, ok \in BOOLEAN : SyncCreated(c, ok)
    \/ \E c \in Procs, ok \in BOOLEAN : SyncUpdated(c, ok)
    \/ \E p \in VerifyIds :
          SyncInFlight = {} /\ VerifyInFlight = {} /\ VerifyStart("c1", p)
    \/ \E c \in Procs, ok \in BOOLEAN : VerifyGotPrimary(c, ok)
    \/ \E c \in Procs, ok \in BOOLEAN : VerifyGotSecondary(c, ok)
    \/ \E s \in Systems, i \in VerifyIds, st \in EditStatuses, d \in EditDescriptions :
          BackendEdit(s, i, st, d)

----------------------------------------------------------------------------
(* workflow/transaction.py *)

Managers == Procs

Operations == {"create_primary", "create_secondary", "notify"}

\* the TransactionStep values a caller passes: an operation, with or without a
\* rollback_fn
Steps == [ operation : Operations, rollback_fn : BOOLEAN ]

NoStep == [ operation |-> "none", rollback_fn |-> FALSE ]

\* the names bound in module transaction (its imports and definitions)
transaction_names ==
    { "List", "Dict", "Any", "Optional", "dataclass", "logging", "logger",
      "TransactionStep", "TransactionManager" }

NoError == [ type |-> "none", step |-> "none", completed_steps |-> << >> ]

\* lines 32-36: what `raise TransactionError(str(e), step=..., completed_steps=...)`
\* raises; the name is looked up before the arguments are used
RaisedError(step, completed) ==
    IF "TransactionError" \in transaction_names
    THEN [ type |-> "TransactionError", step |-> step.operation,
           completed_steps |-> [ i \in 1 .. Len(completed) |-> completed[i].operation ] ]
    ELSE [ type |-> "NameError", step |-> "none", completed_steps |-> << >> ]

\* what an operation that returned has created
Created(operation) ==
    CASE operation = "create_primary" -> {"primary"}
      [] operation = "create_secondary" -> {"mirror"}
      [] OTHER -> {}

\* reversed(self.completed_steps), as positions in the list
ReversedPositions(n) == [ i \in 1 .. n |-> n + 1 - i ]

IdleTx ==
    [ pc |-> "idle", step |-> NoStep, n |-> 0, before |-> 0,
      rb_todo |-> << >>, rb_start |-> 0, raised |-> NoError ]

StepsStarted == tx["c1"].n + tx["c2"].n

\* execute_step up to the await of step.operation (lines 23-25)
ExecStart(m, step) ==
    /\ UNCHANGED <<lifecycleVars, syncVars, retryVars, verifyVars, flowVars, detVars, regVars, pcVars>>
    /\ tx[m].pc \in {"idle", "raised"}
    /\ StepsStarted < MaxSteps
    /\ tx' = [ tx EXCEPT ![m] =
                 [ @ EXCEPT !.pc = "op", !.step = step, !.n = @ + 1,
                            !.before = Len(completed_steps[m]),
                            !.rb_todo = << >>, !.rb_start = Len(rollback_log[m]),
                            !.raised = NoError ] ]
    /\ UNCHANGED <<completed_steps, rollback_log, world>>

\* from the return of step.operation: lines 26-27 when it returned, lines 29-31
\* and the start of rollback (line 40) when it raised
OpReturn(m, ok) ==
    /\ UNCHANGED <<lifecycleVars, syncVars, retryVars, verifyVars, flowVars, detVars, regVars, pcVars>>
    /\ tx[m].pc = "op"
    /\ UNCHANGED rollback_log
    /\ IF ok
       THEN /\ completed_steps' = [ completed_steps EXCEPT ![m] = Append(@, tx[m].step) ]
            /\ world' = [ world EXCEPT ![m] = @ \cup Created(tx[m].step.operation) ]
            /\ tx' = [ tx EXCEPT ![m] = [ @ EXCEPT !.pc = "idle" ] ]
       ELSE /\ tx' = [ tx EXCEPT ![m] =
                         [ @ EXCEPT !.pc = "rollback",
                                    !.rb_todo = ReversedPositions(Len(completed_steps[m])) ] ]
            /\ UNCHANGED <<completed_steps, world>>

\* one turn of the loop of rollback (lines 40-45); `ok` is whether the awaited
\* rollback_fn returned
RollbackStep(m, ok) ==
    /\ UNCHANGED <<lifecycleVars, syncVars, retryVars, verifyVars, flowVars, detVars, regVars, pcVars>>
    /\ tx[m].pc = "rollback"
    /\ tx[m].rb_todo # << >>
    /\ LET pos == Head(tx[m].rb_todo)
           step == completed_steps[m][pos]
       IN  /\ tx' = [ tx EXCEPT ![m] = [ @ EXCEPT !.rb_todo = Tail(@) ] ]
           /\ IF step.rollback_fn
              THEN /\ rollback_log' = [ rollback_log EXCEPT ![m] =
                          Append(@, [ pos |-> pos, operation |-> step.operation, ok |-> ok ]) ]
                   /\ world' = [ world EXCEPT ![m] =
                          IF ok THEN @ \ Created(step.operation) ELSE @ ]
              ELSE UNCHANGED <<rollback_log, world>>
    /\ UNCHANGED completed_steps

\* the end of rollback and the raise of execute_step (lines 32-36)
TxRaise(m) ==
    /\ UNCHANGED <<lifecycleVars, syncVars, retryVars, verifyVars, flowVars, detVars, regVars, pcVars>>
    /\ tx[m].pc = "rollback"
    /\ tx[m].rb_todo = << >>
    /\ tx' = [ tx EXCEPT ![m] =
                 [ @ EXCEPT !.pc = "raised",
                            !.raised = RaisedError(tx[m].step, completed_steps[m]) ] ]
    /\ UNCHANGED <<completed_steps, rollback_log, world>>

TxInit ==
    /\ completed_steps = [ m \in Managers |-> << >> ]
    /\ tx = [ m \in Managers |-> IdleTx ]
    /\ rollback_log = [ m \in Managers |-> << >> ]
    /\ world = [ m \in Managers |-> {} ]

TxNext ==
    \/ \E m \in Managers, step \in Steps : ExecStart(m, step)
    \/ \E m \in Managers, ok \in BOOLEAN : OpReturn(m, ok)
    \/ \E m \in Managers, ok \in BOOLEAN : RollbackStep(m, ok)
    \/ \E m \in Managers : TxRaise(m)

\* the steps of the transactional two-system creation: the primary creation
\* with its delete compensation, then the secondary creation
create_synced_task ==
    << [ operation |-> "create_primary", rollback_fn |-> TRUE ],
       [ operation |-> "create_secondary", rollback_fn |-> FALSE ] >>

----------------------------------------------------------------------------
(* utils/retry.py *)

\* RetryConfig(): the defaults of the constructor
DefaultRetryConfig ==
    [ max_attempts |-> 3, base_delay |-> 1, max_delay |-> 30, exponential_base |-> 2 ]

\* the retry configurations: the default one and others around it
RetryConfigs ==
    [ max_attempts : 1 .. MaxAttempts, base_delay : {1, 2}, max_delay : {3, 30},
      exponential_base : {1, 2} ]

\* what one invocation of the wrapped operation ends with: a result, or an
\* exception of the retryable class or of another class
Outcomes == {"ok", "RetryableError", "ValidationError", "TaskNotFoundError", "Exception"}

RECURSIVE Pow(_, _)
\* b ** e
Pow(b, e) == IF e = 0 THEN 1 ELSE b * Pow(b, e - 1)

Min(a, b) == IF a <= b THEN a ELSE b

\* the backoff delay without its cap
delay_uncapped(attempt, cfg) == cfg.base_delay * Pow(cfg.exponential_base, attempt)

\* lines 55-58: the delay slept after the failed attempt number `attempt`
delay_for(attempt, cfg) ==
    Min(cfg.base_delay * Pow(cfg.exponential_base, attempt), cfg.max_delay)

\* the loop condition taken one attempt too far
InRange_inclusive(attempt, cfg) == attempt <= cfg.max_attempts

\* line 36: `attempt` is a value of range(max_attempts)
InRange(attempt, cfg) == attempt < cfg.max_attempts

\* line 54: another attempt follows this one
WillRetry(attempt, cfg) == attempt + 1 < cfg.max_attempts

\* the keys of the details dict of the APIError built at lines 80-88
api_error_details == {"function", "attempt", "args", "kwargs"}

\* the keys logging refuses in `extra` (attributes of a LogRecord)
LogRecordReserved == {"message", "asctime", "name", "msg", "args", "levelname", "lineno"}

\* lines 80-88 with exceptions.py:36-41: JakeBotError.__init__ logs the error with
\* extra=details before the exception exists; with the logger enabled a reserved
\* key makes that call raise KeyError
raise_APIError(log_enabled) ==
    IF log_enabled /\ api_error_details \cap LogRecordReserved # {}
    THEN "KeyError" ELSE "APIError"

IdleRetry ==
    [ pc |-> "idle", cfg |-> DefaultRetryConfig, log_enabled |-> TRUE,
      attempt |-> 0, invoked |-> 0, outcomes |-> << >>, delays |-> << >>,
      last_exception |-> "None", error |-> "none" ]

\* the head of the for loop (line 36) for the value `attempt`, and line 91 when
\* the range is used up: `raise None` is a TypeError
EnterLoop(r, attempt) ==
    IF InRange(attempt, r.cfg)
    THEN [ r EXCEPT !.pc = "call", !.attempt = attempt ]
    ELSE [ r EXCEPT !.pc = "raised",
                    !.error = IF r.last_exception = "None" THEN "TypeError"
                              ELSE r.last_exception ]

\* wrapper up to its first await of func (lines 33-38)
WrapperStart(cfg, log_enabled) ==
    /\ UNCHANGED <<lifecycleVars, syncVars, txVars, verifyVars, flowVars, detVars, regVars, pcVars>>
    /\ retry.pc \in {"idle", "returned", "raised"}
    /\ nretry < MaxRetryCalls
    /\ nretry' = nretry + 1
    /\ retry' = EnterLoop([ IdleRetry EXCEPT !.cfg = cfg, !.log_enabled = log_enabled ], 0)

\* from the end of the awaited func to the next await or the end (lines 38-91):
\* what the wrapper does with the outcome of func
FuncEnds(outcome) ==
    /\ retry.pc = "call"
    /\ UNCHANGED nretry
    /\ LET r == [ retry EXCEPT !.invoked = @ + 1, !.outcomes = Append(@, outcome) ]
       IN  retry' =
             CASE outcome = "ok" -> [ r EXCEPT !.pc = "returned" ]
               [] outcome = "RetryableError" ->
                    LET e == [ r EXCEPT !.last_exception = "RetryableError" ]
                    IN  IF WillRetry(r.attempt, r.cfg)
                        THEN [ e EXCEPT !.pc = "sleep",
                                        !.delays = Append(@, delay_for(r.attempt, r.cfg)) ]
                        ELSE EnterLoop(e, r.attempt + 1)
               [] OTHER -> [ r EXCEPT !.pc = "raised",
                                      !.error = raise_APIError(r.log_enabled) ]

\* the same for a func that is not modelled any further
FuncDone(outcome) ==
    /\ UNCHANGED <<lifecycleVars, syncVars, txVars, verifyVars, flowVars, detVars, regVars, pcVars>>
    /\ FuncEnds(outcome)

\* from the end of asyncio.sleep(delay) to the next await of func (lines 66-67, 36-38)
SleepDone ==
    /\ UNCHANGED <<lifecycleVars, syncVars, txVars, verifyVars, flowVars, detVars, regVars, pcVars>>
    /\ retry.pc = "sleep"
    /\ UNCHANGED nretry
    /\ retry' = EnterLoop(retry, retry.attempt + 1)

RetryInit ==
    /\ retry = IdleRetry
    /\ nretry = 0

RetryNext ==
    \/ \E cfg \in RetryConfigs, log_enabled \in BOOLEAN : WrapperStart(cfg, log_enabled)
    \/ \E outcome \in Outcomes : FuncDone(outcome)
    \/ SleepDone

----------------------------------------------------------------------------
(* workflow/workflow_manager.py, workflow/task_manager.py *)

\* lines 15-25 of commitment_detector.py: the attributes of a Commitment
CommitmentAttrs ==
    { "description", "system", "due_date", "assignee", "requires_approval",
      "priority", "source_text", "confidence" }

\* reading an attribute the dataclass does not have
AttributeError(name) == name \notin CommitmentAttrs

\* the Commitment objects process_commitment is given. due_date is None, a naive
\* datetime in the past or in the future, or a timezone-aware datetime
Commitments ==
    [ description : {"x"}, due_date : {"future"}, system : {"NowCerts", "CRM"},
      requires_approval : BOOLEAN ]
    \cup [ description : {""}, due_date : {"future"}, system : {"CRM"},
           requires_approval : {FALSE} ]
    \cup [ description : {"x"}, due_date : {"None", "past", "aware"}, system : {"CRM"},
           requires_approval : {FALSE} ]
    \cup [ description : {"x"}, due_date : {"future"}, system : {"insurance"},
           requires_approval : {FALSE} ]

CommitmentLists == UNION { [ 1 .. n -> Commitments ] : n \in 0 .. MaxCommitments }

\* lines 105-119; a timezone-aware due date cannot be compared with datetime.now()
validate_commitment(commitment) ==
    IF commitment.description = "" THEN "False"
    ELSE IF commitment.due_date = "None" THEN "False"
    ELSE IF commitment.due_date = "aware" THEN "TypeError"
    ELSE IF commitment.due_date = "past" THEN "False"
    ELSE IF commitment.system \notin {"NowCerts", "CRM"} THEN "False"
    ELSE "True"

\* process_commitment up to its first await or to its return (lines 64-86 and
\* 97-103; request_approval lines 125-128; create_task_from_commitment lines
\* 26-33 and 45-53; _create_nowcerts_task line 86; _create_close_task lines
\* 111-119): the message of the approval request and the NowCerts task data
\* both read commitment.type, so only a CRM commitment that needs no approval
\* gets as far as a backend call
FirstStep(commitment) ==
    LET valid == validate_commitment(commitment)
    IN  IF valid = "False" THEN "invalid"
        ELSE IF valid = "TypeError" THEN "error"
        ELSE IF commitment.requires_approval /\ AttributeError("type") THEN "error"
        ELSE IF commitment.system = "NowCerts" /\ AttributeError("type") THEN "error"
        ELSE "create_close"

\* the dict process_commitment returns (lines 67-71, 77-80, 91-95, 99-103)
Result(status, commitment) == [ status |-> status, commitment |-> commitment ]

IdleFlow ==
    [ pc |-> "idle", notify |-> FALSE, approver |-> "deny", note |-> << >>, detected |-> FALSE,
      commitments |-> << >>, results |-> << >>, approved |-> {}, create_calls |-> {},
      created |-> {}, summary_failed |-> FALSE, ended |-> "none", delivered |-> << >> ]

\* handle_new_call lines 50-58: the except branch up to its await or its raise
Failed(f) ==
    IF f.notify THEN [ f EXCEPT !.pc = "error_msg" ]
    ELSE [ f EXCEPT !.pc = "done", !.ended = "raised" ]

\* handle_new_call lines 40 and 44-48: after the last commitment, the summary or the return
AfterLoop(f) ==
    IF Len(f.results) < Len(f.commitments) THEN f
    ELSE IF f.notify THEN [ f EXCEPT !.pc = "summary" ]
    ELSE [ f EXCEPT !.pc = "done", !.ended = "returned", !.delivered = f.results ]

\* the id the Close backend gives the next task the workflow creates
FreshCloseId == <<"o", Cardinality({ i \in DOMAIN store["Close"] : i[1] = "o" }) + 1>>

\* what a call meets: whether notifications are enabled in the config, the
\* answer the approver gives to a request, should one arrive, and the
\* commitments the detector finds in the call's note
Environment(notify, approver, note) ==
    [ IdleFlow EXCEPT !.notify = notify, !.approver = approver, !.note = note ]

\* handle_new_call up to the await of get_call (lines 31-33)
HandleNewCall ==
    /\ UNCHANGED <<lifecycleVars, syncVars, txVars, retryVars, verifyVars, detVars, regVars, pcVars>>
    /\ flow.pc \in {"idle", "done"}
    /\ nflow < MaxCalls
    /\ nflow' = nflow + 1
    /\ flow' = [ Environment(flow.notify, flow.approver, flow.note) EXCEPT !.pc = "get_call" ]

\* from the return of get_call to the first await after it (lines 33-48, 50-58)
GetCallReturned(ok) ==
    /\ UNCHANGED <<lifecycleVars, syncVars, txVars, retryVars, verifyVars, detVars, regVars, pcVars>>
    /\ flow.pc = "get_call"
    /\ UNCHANGED nflow
    /\ IF ~ok
       THEN flow' = Failed(flow)
       ELSE flow' = AfterLoop([ flow EXCEPT !.pc = "loop", !.detected = TRUE,
                                            !.commitments = flow.note ])

\* one round of the loop with the error left to handle_new_call
ProcessCommitment_uncaught ==
    /\ UNCHANGED <<lifecycleVars, syncVars, txVars, retryVars, verifyVars, detVars, regVars, pcVars>>
    /\ flow.pc = "loop"
    /\ Len(flow.results) < Len(flow.commitments)
    /\ UNCHANGED nflow
    /\ LET i == Len(flow.results) + 1
           commitment == flow.commitments[i]
           step == FirstStep(commitment)
       IN  IF step = "create_close"
           THEN flow' = [ flow EXCEPT !.pc = "create_close", !.create_calls = @ \cup {i} ]
           ELSE IF step = "error"
           THEN flow' = Failed(flow)
           ELSE flow' = AfterLoop([ flow EXCEPT !.results = Append(@, Result(step, commitment)) ])

\* one round of the loop of handle_new_call (lines 40-42) with process_commitment
\* (lines 60-103) up to the await of the Close client's create_task
ProcessCommitment ==
    /\ UNCHANGED <<lifecycleVars, syncVars, txVars, retryVars, verifyVars, detVars, regVars, pcVars>>
    /\ flow.pc = "loop"
    /\ Len(flow.results) < Len(flow.commitments)
    /\ UNCHANGED nflow
    /\ LET i == Len(flow.results) + 1
           commitment == flow.commitments[i]
           step == FirstStep(commitment)
       IN  IF step = "create_close"
           THEN flow' = [ flow EXCEPT !.pc = "create_close", !.create_calls = @ \cup {i} ]
           ELSE flow' = AfterLoop([ flow EXCEPT !.results = Append(@, Result(step, commitment)) ])

\* from the return of the Close client's create_task to the next await
\* (task_manager.py lines 119-125, 31, 36-41, 45-53; workflow_manager.py lines
\* 97-103, 40-48): the task exists in Close when the call returned; building
\* the tracker entry reads commitment.to_dict and the except branch reads
\* commitment.id, so the round ends as "error" either way
CloseCreateReturned(ok) ==
    /\ UNCHANGED <<lifecycleVars, txVars, retryVars, verifyVars, detVars, regVars, pcVars>>
    /\ flow.pc = "create_close"
    /\ UNCHANGED <<nflow, task_mappings, sync_calls, sync_log, nsync>>
    /\ LET i == Len(flow.results) + 1
           commitment == flow.commitments[i]
           new == FreshCloseId
           status == IF AttributeError("to_dict") \/ AttributeError("id") \/ ~ok
                     THEN "error" ELSE "completed"
           f == [ flow EXCEPT !.pc = "loop",
                              !.created = IF ok THEN @ \cup {new} ELSE @,
                              !.results = Append(@, Result(status, commitment)) ]
       IN  /\ store' = IF ok
                       THEN [ store EXCEPT !["Close"] =
                                [ j \in DOMAIN @ \cup {new} |->
                                    IF j = new THEN BackendTask("open", "none") ELSE @[j] ] ]
                       ELSE store
           /\ flow' = AfterLoop(f)

\* from the return of send_message in send_summary to the end or to the next
\* await (lines 164-167, 46-48, 50-58)
SummarySent(ok) ==
    /\ UNCHANGED <<lifecycleVars, syncVars, txVars, retryVars, verifyVars, detVars, regVars, pcVars>>
    /\ flow.pc = "summary"
    /\ UNCHANGED nflow
    /\ IF ok
       THEN flow' = [ flow EXCEPT !.pc = "done", !.ended = "returned",
                                  !.delivered = flow.results ]
       ELSE flow' = Failed([ flow EXCEPT !.summary_failed = TRUE ])

\* from the return of send_message in the except branch to the raise (lines 54-58)
ErrorMessageSent(ok) ==
    /\ UNCHANGED <<lifecycleVars, syncVars, txVars, retryVars, verifyVars, detVars, regVars, pcVars>>
    /\ flow.pc = "error_msg"
    /\ UNCHANGED nflow
    /\ flow' = [ flow EXCEPT !.pc = "done", !.ended = "raised" ]

FlowInit ==
    /\ flow = IdleFlow
    /\ nflow = 0

\* any environment
FlowInputs ==
    \E notify \in BOOLEAN, approver \in {"approve", "deny"}, note \in CommitmentLists :
        flow = Environment(notify, approver, note)

FlowNext ==
    \/ HandleNewCall
    \/ \E ok \in BOOLEAN : GetCallReturned(ok)
    \/ ProcessCommitment
    \/ \E ok \in BOOLEAN : CloseCreateReturned(ok)
    \/ \E ok \in BOOLEAN : SummarySent(ok)
    \/ \E ok \in BOOLEAN : ErrorMessageSent(ok)

----------------------------------------------------------------------------
(* ai_agents/commitment_detector.py, ai_agents/time_parser.py, ai_agents/patterns *)

\* the patterns, by their "type": `registered` is the name they are registered
\* under (registry.py lines 34-35), `system` the target system they declare
PatternDicts ==
    { [ type |-> "document_sending", registered |-> "insurance", system |-> "NowCerts",
        requires_approval |-> FALSE, priority |-> "normal" ],
      [ type |-> "policy_update", registered |-> "insurance", system |-> "NowCerts",
        requires_approval |-> TRUE, priority |-> "high" ],
      [ type |-> "follow_up", registered |-> "crm", system |-> "CRM",
        requires_approval |-> FALSE, priority |-> "normal" ] }

\* what a pattern's `what` and `when` groups capture
Whats == {"", "docs", "docs asap"}
Whens == {"today", "tomorrow", "soon"}

\* a match of a pattern in the message of a line
Matches == [ pattern_dict : PatternDicts, what : Whats, when : Whens ]

\* the speaker prefixes of transcript lines, before the colon
Speakers == {"Agent", "Customer"}

\* a line of the transcript: its speaker prefix and the match its message holds
Lines == [ speaker : Speakers, match : Matches ]

LineLists == UNION { [ 1 .. n -> Lines ] : n \in 0 .. MaxMatches }

\* str.lower() on a speaker prefix
lower(text) ==
    CASE text = "Agent" -> "agent"
      [] text = "Customer" -> "customer"
      [] OTHER -> text

\* every line counts as an agent line
is_agent_line_any(line) == TRUE

\* line 47: line.strip().lower().startswith("agent:")
is_agent_line(line) == lower(line.speaker) = "agent"

\* line 50: the message of a line is what follows the speaker prefix
message_of(line) == line.match

RECURSIVE agent_matches(_)
\* lines 46-58: the matches the loops reach, in the order they reach them
agent_matches(lines) ==
    IF lines = << >>
    THEN << >>
    ELSE (IF is_agent_line(Head(lines)) THEN << Head(lines).match >> ELSE << >>)
         \o agent_matches(Tail(lines))

\* time_parser.py lines 119-156 and 197-239: the due date is a datetime of the
\* parser's time zone, whatever the text; the confidence is in tenths
parse_time(text) ==
    [ due_date |-> "aware",
      confidence |-> IF text = "tomorrow" THEN 9 ELSE IF text = "soon" THEN 4 ELSE 6 ]

\* line 138
urgent_keywords == {"urgent", "asap", "immediately", "emergency"}

\* the words of a description, in lower case
WordsOf(description) ==
    CASE description = "docs" -> {"docs"}
      [] description = "docs asap" -> {"docs", "asap"}
      [] OTHER -> {}

\* lines 122-148; line 134 subtracts the naive datetime.now() from the due
\* date before it looks at the difference, which raises for every due date
\* that has a time zone
determine_priority(base_priority, description, parsed_time) ==
    IF parsed_time.due_date # "None"
    THEN "TypeError"
    ELSE LET base_score == IF base_priority = "high" THEN 3
                           ELSE IF base_priority = "normal" THEN 2 ELSE 1
             priority_score ==
                 base_score + (IF WordsOf(description) \cap urgent_keywords # {} THEN 1 ELSE 0)
         IN  IF priority_score >= 4 THEN "high"
             ELSE IF priority_score >= 2 THEN "normal" ELSE "low"

\* the commitment built from the captures as they are
process_match_unchecked(match, pattern_dict, message, system) ==
    LET parsed_time == parse_time(match.when)
    IN  << [ description |-> match.what, system |-> system,
             due_date |-> parsed_time.due_date,
             requires_approval |-> pattern_dict.requires_approval,
             priority |-> pattern_dict.priority,
             source_text |-> message,
             confidence |-> parsed_time.confidence ] >>

\* lines 87-120, as the list of what it returns: << >> for None
process_match(match, pattern_dict, message, system) ==
    LET parsed_time == parse_time(match.when)
        priority == determine_priority(pattern_dict.priority, match.what, parsed_time)
    IN  IF match.what = "" \/ parsed_time.due_date = "None"
        THEN << >>
        ELSE IF priority = "TypeError"
        THEN << >>
        ELSE << [ description |-> match.what, system |-> system,
                  due_date |-> parsed_time.due_date,
                  requires_approval |-> pattern_dict.requires_approval,
                  priority |-> priority,
                  source_text |-> message,
                  confidence |-> parsed_time.confidence ] >>

RECURSIVE GCD(_, _)
GCD(a, b) == IF b = 0 THEN a ELSE GCD(b, a % b)

\* the fraction n / d in lowest terms: the model's number for a Python float
Frac(n, d) == << n \div GCD(n, d), d \div GCD(n, d) >>

\* registry.py lines 13-23: a new PatternStats
PatternStats == [ matches |-> 0, false_positives |-> 0, avg_confidence |-> Frac(0, 1) ]

\* registry.py lines 44 and 65: f"{system}:{pattern_type}"
pattern_id(system, pattern_type) == << system, pattern_type >>

\* registry.py lines 34-35 and 43-46: the stats after construction
RegisteredStats ==
    [ id \in { pattern_id(p.registered, p.type) : p \in PatternDicts } |-> PatternStats ]

\* registry.py lines 62-80: the stats after record_match; the confidence is in
\* tenths, the running average is (avg * (total - 1) + confidence) / total
record_match(st, system, pattern_type, confidence, is_false_positive) ==
    LET id == pattern_id(system, pattern_type)
        old == IF id \in DOMAIN st THEN st[id] ELSE PatternStats
        matches == IF is_false_positive THEN old.matches ELSE old.matches + 1
        false_positives ==
            IF is_false_positive THEN old.false_positives + 1 ELSE old.false_positives
        total_matches == matches + false_positives
        avg == old.avg_confidence
    IN  [ x \in DOMAIN st \cup {id} |->
            IF x = id
            THEN [ matches |-> matches, false_positives |-> false_positives,
                   avg_confidence |->
                      Frac(avg[1] * (total_matches - 1) * 10 + confidence * avg[2],
                           avg[2] * total_matches * 10) ]
            ELSE st[x] ]

\* the patterns over a threshold, whatever the size of their sample
get_underperforming_patterns_any_sample(st, min_confidence, max_false_positive_rate) ==
    { id \in DOMAIN st :
        LET total_matches == st[id].matches + st[id].false_positives
        IN  /\ total_matches > 0
            /\ \/ st[id].avg_confidence[1] * 10 < min_confidence * st[id].avg_confidence[2]
               \/ st[id].false_positives * 10 > max_false_positive_rate * total_matches }

\* registry.py lines 96-111, as the set of the ids it returns; the two
\* thresholds are in tenths
get_underperforming_patterns(st, min_confidence, max_false_positive_rate) ==
    { id \in DOMAIN st :
        LET total_matches == st[id].matches + st[id].false_positives
        IN  /\ ~(total_matches < 10)
            /\ \/ st[id].avg_confidence[1] * 10 < min_confidence * st[id].avg_confidence[2]
               \/ st[id].false_positives * 10 > max_false_positive_rate * total_matches }

\* whether _process_match meets an exception on this match
MatchRaises(match) ==
    /\ match.what # ""
    /\ determine_priority(match.pattern_dict.priority, match.what,
                          parse_time(match.when)) = "TypeError"

RECURSIVE process_matches_abort(_, _)
\* the loop over the matches, given up at the first match that meets an exception
process_matches_abort(matches, st) ==
    IF matches = << >> \/ MatchRaises(Head(matches))
    THEN [ commitments |-> << >>, stats |-> st ]
    ELSE LET match == Head(matches)
             commitment == process_match(match, match.pattern_dict, match,
                                         match.pattern_dict.registered)
             rest == process_matches_abort(Tail(matches),
                         record_match(st, match.pattern_dict.registered,
                                      match.pattern_dict.type,
                                      IF commitment # << >> THEN commitment[1].confidence ELSE 0,
                                      commitment = << >>))
         IN  [ commitments |-> commitment \o rest.commitments, stats |-> rest.stats ]

RECURSIVE process_matches(_, _)
\* lines 53-78: each match goes through _process_match and is recorded in the
\* registry; the `system` handed to both is the name the pattern is
\* registered under
process_matches(matches, st) ==
    IF matches = << >>
    THEN [ commitments |-> << >>, stats |-> st ]
    ELSE LET match == Head(matches)
             commitment == process_match(match, match.pattern_dict, match,
                                         match.pattern_dict.registered)
             rest == process_matches(Tail(matches),
                         record_match(st, match.pattern_dict.registered,
                                      match.pattern_dict.type,
                                      IF commitment # << >> THEN commitment[1].confidence ELSE 0,
                                      commitment = << >>))
         IN  [ commitments |-> commitment \o rest.commitments, stats |-> rest.stats ]

\* lines 38-85: the commitments returned and the registry's stats afterwards;
\* the underperforming patterns of lines 81-83 are only logged
detect_commitments(lines, st) == process_matches(agent_matches(lines), st)

\* the call of detect_commitments on the transcript
Detect ==
    /\ UNCHANGED <<lifecycleVars, syncVars, txVars, retryVars, verifyVars, flowVars, pcVars>>
    /\ UNCHANGED <<problematic, observed>>
    /\ ~detector.returned
    /\ detector' = [ detector EXCEPT !.returned = TRUE,
                                     !.matches = agent_matches(detector.lines),
                                     !.commitments =
                                         detect_commitments(detector.lines, stats).commitments ]
    /\ stats' = detect_commitments(detector.lines, stats).stats

\* a transcript with these lines, not yet given to the detector
Transcript(lines) ==
    [ lines |-> lines, returned |-> FALSE, matches |-> << >>, commitments |-> << >> ]

DetectInit == detector = Transcript(<< >>)

\* any transcript
DetectInputs == \E lines \in LineLists : detector = Transcript(lines)

DetectNext == Detect

----------------------------------------------------------------------------
(* ai_agents/patterns/registry.py, called directly *)

\* the category the observations are recorded for
TestPattern == pattern_id("insurance", "test_pattern")

\* the confidences of the observations and the thresholds asked for, in tenths
Confidences == {6, 7, 9}
MinConfidences == {5, 7}
MaxFalsePositiveRates == {1, 5}

\* what has been recorded for the category: how many observations, the sum
\* of their confidences, how many of them flagged false positive
NothingObserved == [ n |-> 0, sum |-> 0, flagged |-> 0 ]

\* no call of get_underperforming_patterns yet
NotAsked == [ asked |-> FALSE, min_confidence |-> 0, max_false_positive_rate |-> 0,
              result |-> {} ]

\* a call of record_match
RecordMatch(confidence, is_false_positive) ==
    /\ UNCHANGED <<lifecycleVars, syncVars, txVars, retryVars, verifyVars, flowVars, detVars, pcVars>>
    /\ observed.n < MaxObservations
    /\ stats' = record_match(stats, "insurance", "test_pattern", confidence, is_false_positive)
    /\ observed' = [ n |-> observed.n + 1, sum |-> observed.sum + confidence,
                     flagged |-> observed.flagged + (IF is_false_positive THEN 1 ELSE 0) ]
    /\ problematic' = NotAsked

\* a call of get_underperforming_patterns
GetUnderperformingPatterns(min_confidence, max_false_positive_rate) ==
    /\ UNCHANGED <<lifecycleVars, syncVars, txVars, retryVars, verifyVars, flowVars, detVars, pcVars>>
    /\ UNCHANGED <<stats, observed>>
    /\ ~problematic.asked
    /\ problematic' =
          [ asked |-> TRUE, min_confidence |-> min_confidence,
            max_false_positive_rate |-> max_false_positive_rate,
            result |-> get_underperforming_patterns(stats, min_confidence,
                                                    max_false_positive_rate) ]

RegistryInit ==
    /\ stats = RegisteredStats
    /\ problematic = NotAsked
    /\ observed = NothingObserved

RegistryNext ==
    \/ \E confidence \in Confidences, is_false_positive \in BOOLEAN :
          RecordMatch(confidence, is_false_positive)
    \/ \E min_confidence \in MinConfidences, max_false_positive_rate \in MaxFalsePositiveRates :
          GetUnderperformingPatterns(min_confidence, max_false_positive_rate)

----------------------------------------------------------------------------
(* workflow/manager.py *)

\* what an awaited step of process_call (detect_commitments, create_task)
\* ends with; WorkflowManager defines neither method, so as shipped the first
\* step ends with AttributeError
StepOutcomes == Outcomes \cup {"AttributeError"}

\* lines 24-60: what process_call ends with when a step of it ends with
\* step_outcome: `except Exception` turns every exception into WorkflowError
process_call(step_outcome) == IF step_outcome = "ok" THEN "ok" ELSE "WorkflowError"

IdleProcessCall == [ pc |-> "idle", remaining |-> 0, tasks |-> 0, steps |-> << >> ]

\* process_call up to its await of detect_commitments (lines 24-28); the
\* wrapper has just invoked it (retry.py line 38)
ProcessCallStart ==
    /\ UNCHANGED <<lifecycleVars, syncVars, txVars, retryVars, verifyVars, flowVars, detVars, regVars>>
    /\ retry.pc = "call"
    /\ pcall.pc \in {"idle", "ended"}
    /\ pcall' = [ IdleProcessCall EXCEPT !.pc = "detect" ]

\* from the end of detect_commitments, which found n commitments or raised,
\* to the await of the first create_task or to the end (lines 28-60)
DetectCommitmentsDone(step_outcome, n) ==
    /\ UNCHANGED <<lifecycleVars, syncVars, txVars, verifyVars, flowVars, detVars, regVars>>
    /\ pcall.pc = "detect"
    /\ LET p == [ pcall EXCEPT !.steps = Append(@, step_outcome) ]
       IN  IF step_outcome = "ok" /\ n > 0
           THEN /\ pcall' = [ p EXCEPT !.pc = "create", !.remaining = n ]
                /\ UNCHANGED retryVars
           ELSE /\ pcall' = [ p EXCEPT !.pc = "ended" ]
                /\ FuncEnds(process_call(step_outcome))

\* from the end of a create_task to the await of the next one or to the end
\* (lines 32-60)
CreateTaskDone(step_outcome) ==
    /\ UNCHANGED <<lifecycleVars, syncVars, txVars, verifyVars, flowVars, detVars, regVars>>
    /\ pcall.pc = "create"
    /\ LET p == [ pcall EXCEPT !.steps = Append(@, step_outcome) ]
       IN  IF step_outcome = "ok" /\ pcall.remaining > 1
           THEN /\ pcall' = [ p EXCEPT !.remaining = @ - 1, !.tasks = @ + 1 ]
                /\ UNCHANGED retryVars
           ELSE /\ pcall' = [ p EXCEPT !.pc = "ended",
                                       !.remaining = IF step_outcome = "ok" THEN 0 ELSE @,
                                       !.tasks = IF step_outcome = "ok" THEN @ + 1 ELSE @ ]
                /\ FuncEnds(process_call(step_outcome))

ProcessCallInit == pcall = IdleProcessCall

\* process_call as decorated, @with_retry() with the default configuration
\* (line 21). asyncio.sleep (retry.py line 67) is never awaited here, so
\* SleepDone has no step to take and is left out.
ProcessCallNext ==
    \/ \E log_enabled \in BOOLEAN : WrapperStart(DefaultRetryConfig, log_enabled)
    \/ ProcessCallStart
    \/ \E step_outcome \in StepOutcomes, n \in 0 .. MaxCommitments :
          DetectCommitmentsDone(step_outcome, n)
    \/ \E step_outcome \in StepOutcomes : CreateTaskDone(step_outcome)

----------------------------------------------------------------------------
(* Specifications *)

Init ==
    /\ LifecycleInit /\ SyncInit /\ TxInit /\ RetryInit
    /\ VerifyInit /\ FlowInit /\ DetectInit /\ RegistryInit /\ ProcessCallInit

\* the workflow in any environment
InitFlow ==
    /\ LifecycleInit /\ SyncInit /\ TxInit /\ RetryInit
    /\ VerifyInit /\ FlowInputs /\ nflow = 0 /\ DetectInit /\ RegistryInit /\ ProcessCallInit

\* the detector before any transcript
InitDetect ==
    /\ LifecycleInit /\ SyncInit /\ TxInit /\ RetryInit
    /\ VerifyInit /\ FlowInit /\ DetectInputs /\ RegistryInit /\ ProcessCallInit

\* the tracker after add_task("t1", ...) on a new lifecycle manager
InitTracked ==
    /\ tasks = add_task(<< >>, "t1", "NowCerts")
    /\ calls = [ c \in Procs |-> IdleCall ]
    /\ backend_calls = << >>
    /\ nops = 0
    /\ SyncInit /\ TxInit /\ RetryInit
    /\ VerifyInit /\ FlowInit /\ DetectInit /\ RegistryInit /\ ProcessCallInit

Next == LifecycleNext

\* the tracker and the lifecycle manager
Spec == Init /\ [][Next]_vars

\* the tracker and the lifecycle manager, from a tracker that holds a task
SpecTracked == InitTracked /\ [][Next]_vars

\* the lifecycle manager alone
SpecManager == Init /\ [][ManagerNext]_vars

\* the synchronizer under concurrently scheduled calls
SpecSync == Init /\ [][SyncNext]_vars

\* the synchronizer under one call at a time
SpecSyncSeq == Init /\ [][SyncSeqNext]_vars

\* the transaction managers
SpecTx == Init /\ [][TxNext]_vars

\* sync_task and verify_sync one call at a time, over backends that change
SpecVerify == Init /\ [][VerifyNext]_vars

\* the call workflow
SpecFlow == InitFlow /\ [][FlowNext]_vars

\* the commitment detector
SpecDetect == InitDetect /\ [][DetectNext]_vars

\* the task manager
SpecTaskManager == Init /\ [][TaskManagerNext]_vars

\* process_call under its retry wrapper
SpecProcessCall == Init /\ [][ProcessCallNext]_vars

\* the pattern registry, called directly
SpecRegistry == Init /\ [][RegistryNext]_vars

\* the with_retry wrapper around an operation that ends, and a sleep that ends
SpecRetry ==
    /\ Init
    /\ [][RetryNext]_vars
    /\ WF_vars(\E outcome \in Outcomes : FuncDone(outcome))
    /\ WF_vars(SleepDone)

----------------------------------------------------------------------------
(* The documented state machine *)

TransitionTable ==
    {<<"PENDING", "IN_PROGRESS">>, <<"PENDING", "CANCELLED">>}
    \cup ({"IN_PROGRESS"} \X {"COMPLETED", "FAILED", "NEEDS_APPROVAL", "CANCELLED"})
    \cup ({"NEEDS_APPROVAL"} \X {"IN_PROGRESS", "COMPLETED", "REJECTED", "CANCELLED"})

Terminal == {"COMPLETED", "FAILED", "REJECTED", "CANCELLED"}

\* call c is a finished update_task that asked for a status on a tracked task
StatusUpdateDone(c) ==
    /\ calls[c].pc = "done"
    /\ calls[c].op = "update_task"
    /\ calls[c].status # NoStatus
    /\ calls[c].from # "none"

\* call c was turned down by the transition check
Rejected(c) == calls[c].cause \in {"ValidationError", "AttributeError"}

\* C1: update_task with a 'status' field is governed by the transition table:
\* it succeeds only for a (tracked status, requested status) pair of the table,
\* the transition check turns down exactly the pairs outside the table, and so
\* every two consecutive, distinct statuses of a history built by update_task
\* calls form a pair of the table.
C1_TransitionTable ==
    /\ \A c \in Procs : StatusUpdateDone(c) =>
          LET pair == <<calls[c].from, calls[c].status>>
          IN  /\ (calls[c].raised = "none" => pair \in TransitionTable)
              /\ (Rejected(c) <=> pair \notin TransitionTable)
    /\ \A t \in DOMAIN tasks :
          LET h == tasks[t].status_history
          IN  \A i \in 1 .. (Len(h) - 1) :
                h[i].status # h[i + 1].status
                  => <<h[i].status, h[i + 1].status>> \in TransitionTable

\* a step of a lifecycle operation that carries a status: update_task with a
\* 'status' field, or cancel_task
StatusOpStep ==
    \/ \E c \in Procs, t \in TaskIds, s \in TaskStatus, n \in Notes : UpdateStart(c, t, s, n)
    \/ \E c \in Procs, t \in TaskIds : CancelStart(c, t, "note")
    \/ \E c \in Procs, ok \in BOOLEAN : calls[c].status # NoStatus /\ Resume(c, ok)

\* C2: COMPLETED, FAILED, REJECTED and CANCELLED are terminal: no step of an
\* update_task that carries a status, or of a cancel_task, changes the status
\* of a task whose tracked status is one of them.
C2_TerminalIsFinal ==
    [][ \/ \A t \in DOMAIN tasks :
              tasks[t].status \in Terminal
                => t \in DOMAIN tasks' /\ tasks'[t].status = tasks[t].status
        \/ ~StatusOpStep ]_vars

\* C2 witness: an update_task with a status, or a cancel_task, has run on a task
\* in a terminal status, and that task is still in that status
C2_Witness ==
    \E c \in Procs :
        /\ calls[c].pc = "done"
        /\ calls[c].op = "cancel_task" \/ calls[c].status # NoStatus
        /\ calls[c].from \in Terminal
        /\ tasks[calls[c].task].status = calls[c].from

\* C3: of two update_task calls for the same task id that were in flight
\* together (the backend failing neither), exactly one succeeds and the other
\* fails.
C3_ExactlyOneWinner ==
    \A c, d \in Procs :
        ( /\ c # d
          /\ calls[c].pc = "done" /\ calls[d].pc = "done"
          /\ calls[c].op = "update_task" /\ calls[d].op = "update_task"
          /\ calls[c].task = calls[d].task
          /\ calls[c].cause # "APIError" /\ calls[d].cause # "APIError"
          /\ d \in calls[c].peers )
        => Cardinality({ x \in {c, d} : calls[x].raised = "none" }) = 1

\* C10: an update_task asking for a transition outside the table fails with
\* ValidationError, sends nothing to the backend and leaves the tracker as it was.
C10_IllegalRejectedCleanly ==
    [][ \A c \in Procs, t \in TaskIds, s \in TaskStatus, n \in Notes :
          ( /\ UpdateStart(c, t, s, n)
            /\ t \in DOMAIN tasks
            /\ <<tasks[t].status, s>> \notin TransitionTable )
          => /\ calls'[c].pc = "done"
             /\ calls'[c].raised = "ValidationError"
             /\ backend_calls' = backend_calls
             /\ tasks' = tasks ]_vars

----------------------------------------------------------------------------
(* Tracker and lifecycle properties *)

\* C11: when the backend's update_task call fails during update_task, the
\* operation fails and the task's record (status, history) is left as it was.
C11_FailedPropagationFrame ==
    [][ \A c \in Procs :
          ( /\ calls[c].pc = "await"
            /\ calls[c].op = "update_task"
            /\ Resume(c, FALSE) )
          => /\ tasks' = tasks
             /\ calls'[c].pc = "done"
             /\ calls'[c].raised # "none" ]_vars

\* C11 witness: an update_task of a tracked task has failed on its backend call
C11_Witness ==
    \E c \in Procs :
        /\ calls[c].pc = "done"
        /\ calls[c].op = "update_task"
        /\ calls[c].cause = "APIError"
        /\ calls[c].task \in DOMAIN tasks

\* h is g with one entry appended
AppendsOne(g, h) == Len(h) = Len(g) + 1 /\ SubSeq(h, 1, Len(g)) = g

\* C12: a task starts tracked as PENDING with the single history entry PENDING,
\* and every successful update appends exactly one entry, which carries the new
\* current status and the update's notes: the history has one entry more than
\* the updates made since the creation, the first PENDING, the last the current
\* status.
C12_HistoryLength ==
    /\ [] ( \A t \in DOMAIN tasks :
              LET h == tasks[t].status_history
              IN  /\ Len(h) >= 1
                  /\ h[1].status = "PENDING"
                  /\ h[Len(h)].status = tasks[t].status )
    /\ [][ \/ tasks' = tasks
           \/ /\ \A t \in DOMAIN tasks' :
                   \/ t \in DOMAIN tasks /\ tasks'[t] = tasks[t]
                   \/ /\ tasks'[t].status = "PENDING"
                      /\ Len(tasks'[t].status_history) = 1
                   \/ /\ t \in DOMAIN tasks
                      /\ AppendsOne(tasks[t].status_history, tasks'[t].status_history)
              /\ \A c \in Procs :
                   (calls[c].pc = "await" /\ calls[c].op # "create_task" /\ Resume(c, TRUE))
                     => LET h == tasks'[calls[c].task].status_history
                        IN  /\ AppendsOne(tasks[calls[c].task].status_history, h)
                            /\ h[Len(h)].notes = calls[c].notes
              /\ \A t \in DOMAIN tasks, s \in TaskStatus, n \in Notes :
                   (calls' = calls /\ TrackerUpdateStatus(t, s, n))
                     => LET h == tasks'[t].status_history
                        IN  /\ AppendsOne(tasks[t].status_history, h)
                            /\ h[Len(h)] = [status |-> s, notes |-> n] ]_vars

\* C12 witness: PENDING -> IN_PROGRESS -> COMPLETED has given a 3-entry history
C12_Witness ==
    \E t \in DOMAIN tasks :
        LET h == tasks[t].status_history
        IN  /\ Len(h) = 3
            /\ h[1].status = "PENDING"
            /\ h[2].status = "IN_PROGRESS"
            /\ h[3].status = "COMPLETED"
            /\ tasks[t].status = "COMPLETED"

\* C13: a status record is never deleted and its history is append-only: every
\* entry recorded earlier stays at its position, whatever operation runs
\* (a creation under an id that is already tracked included).
C13_AuditTrail ==
    [][ \A t \in DOMAIN tasks :
          /\ t \in DOMAIN tasks'
          /\ LET g == tasks[t].status_history
                 h == tasks'[t].status_history
             IN  Len(h) >= Len(g) /\ SubSeq(h, 1, Len(g)) = g ]_vars

\* C14: update_task and cancel_task on an id without a status record fail with
\* TaskNotFoundError, call no backend and create no record.
C14_UntrackedNotFound ==
    [][ \A c \in Procs, t \in TaskIds :
          ( /\ t \notin DOMAIN tasks
            /\ nops' = nops + 1
            /\ \/ \E s \in TaskStatus \cup {NoStatus}, n \in Notes : UpdateStart(c, t, s, n)
               \/ CancelStart(c, t, "note") )
          => /\ calls'[c].pc = "done"
             /\ calls'[c].raised = "TaskNotFoundError"
             /\ backend_calls' = backend_calls
             /\ tasks' = tasks ]_vars

\* C15: cancel_task on a tracked task in a non-terminal status is a transition
\* to CANCELLED: the request goes to the backend, and when that returns the
\* tracked status is CANCELLED and the last history entry is CANCELLED with the
\* reason as notes.
C15_CancelTransition ==
    [][ \A c \in Procs :
          /\ \A t \in DOMAIN tasks :
                (tasks[t].status \notin Terminal /\ CancelStart(c, t, "note"))
                  => calls'[c].pc = "await"
          /\ (calls[c].pc = "await" /\ calls[c].op = "cancel_task" /\ Resume(c, TRUE))
                => LET r == tasks'[calls[c].task]
                   IN  /\ r.status = "CANCELLED"
                       /\ r.status_history[Len(r.status_history)]
                            = [status |-> "CANCELLED", notes |-> calls[c].notes] ]_vars

\* C16: create_task with priority 'high' and no approval flag fails with
\* ValidationError before any backend call, and whenever create_task fails the
\* tracker has no record it made.
C16_HighPriorityNeedsApproval ==
    [][ \A c \in Procs, task_data \in TaskData :
          /\ ( /\ nops' = nops + 1
               /\ task_data.priority = "high" /\ ~task_data.approval_required
               /\ CreateStart(c, task_data) )
             => /\ calls'[c].pc = "done"
                /\ calls'[c].raised = "ValidationError"
                /\ backend_calls' = backend_calls
                /\ tasks' = tasks
          /\ ( /\ calls[c].op = "create_task"
               /\ calls'[c].pc = "done" /\ calls'[c].raised # "none"
               /\ calls[c] # calls'[c] )
             => tasks' = tasks ]_vars

\* task_data that meets every rule of validate_task
ValidTaskData(task_data) ==
    /\ task_data.fields_ok
    /\ ~task_data.too_long
    /\ task_data.priority = "high" => task_data.approval_required

\* C19: a task creation whose backend create call fails transiently k times
\* (k < max_attempts) and then succeeds, succeeds after k+1 backend calls: a
\* create_task with valid data gets to its backend call, and once the backend
\* has answered the created task is returned and tracked.
C19_OutageRecovery ==
    [][ \A c \in Procs :
          /\ \A task_data \in TaskData :
                (nops' = nops + 1 /\ ValidTaskData(task_data) /\ CreateStart(c, task_data))
                  => /\ calls'[c].pc = "await"
                     /\ Len(backend_calls') = Len(backend_calls) + 1
          /\ (calls[c].pc = "await" /\ calls[c].op = "create_task" /\ Resume(c, TRUE))
                => /\ calls'[c].raised = "none"
                   /\ calls[c].task \in DOMAIN tasks' ]_vars

----------------------------------------------------------------------------
(* Retry properties *)

\* the wrapper has ended
RetryEnded == retry.pc \in {"returned", "raised"}

\* C17: with_retry invokes the operation at most max_attempts times; when every
\* attempt raises RetryableError it is invoked exactly max_attempts times and the
\* caller gets a RetryableError; and a started wrapper always ends.
C17_BoundedRetry ==
    /\ [] ( /\ retry.invoked <= retry.cfg.max_attempts
            /\ ( /\ retry.pc = "raised"
                 /\ \A i \in 1 .. Len(retry.outcomes) : retry.outcomes[i] = "RetryableError" )
               => /\ retry.invoked = retry.cfg.max_attempts
                  /\ retry.error = "RetryableError" )
    /\ ( retry.pc \in {"call", "sleep"} ~> RetryEnded )

\* C17 witness: the default three attempts all raised RetryableError and the
\* wrapper has raised
C17_Witness ==
    /\ retry.pc = "raised"
    /\ retry.cfg = DefaultRetryConfig
    /\ retry.outcomes = << "RetryableError", "RetryableError", "RetryableError" >>

\* C18: an error that is not a RetryableError ends the wrapper at once: that
\* invocation is the last, no backoff delay follows it, and the caller gets
\* that error, as it is or inside the APIError that carries its context.
C18_NoRetryOnOtherErrors ==
    ( /\ retry.pc = "raised"
      /\ retry.outcomes # << >>
      /\ retry.outcomes[Len(retry.outcomes)] \notin {"ok", "RetryableError"} )
    => /\ retry.invoked = Len(retry.outcomes)
       /\ Len(retry.delays) = retry.invoked - 1
       /\ retry.error \in {retry.outcomes[Len(retry.outcomes)], "APIError"}

\* C20: the delay slept after the failed attempt k (k = 0, 1, ..) is
\* min(base_delay * exponential_base^k, max_delay); the delays never decrease,
\* none exceeds max_delay, and none is slept after the last attempt.
C20_CappedBackoff ==
    LET cfg == retry.cfg
        d == retry.delays
    IN  /\ \A i \in 1 .. Len(d) :
              /\ d[i] = Min(cfg.base_delay * Pow(cfg.exponential_base, i - 1), cfg.max_delay)
              /\ d[i] <= cfg.max_delay
              /\ i > 1 => d[i - 1] <= d[i]
        /\ Len(d) <= cfg.max_attempts - 1
        /\ Len(d) <= retry.invoked
        /\ RetryEnded => Len(d) = retry.invoked - 1

\* C20 witness: the wrapper has ended after a delay that was cut to max_delay
C20_Witness ==
    /\ RetryEnded
    /\ \E i \in 1 .. Len(retry.delays) :
          /\ retry.delays[i] = retry.cfg.max_delay
          /\ retry.cfg.base_delay * Pow(retry.cfg.exponential_base, i - 1) > retry.cfg.max_delay

----------------------------------------------------------------------------
(* Synchronizer properties *)

\* the tasks the backends hold as mirrors of primary task p
Mirrors(p) ==
    { <<s, i>> \in Systems \X CreatedIds :
        i \in DOMAIN store[s] /\ store[s][i].linked_task_id = p }

\* the positions of the log that belong to sync_task calls for primary task p
LogOf(p) == { i \in 1 .. Len(sync_log) : sync_log[i].primary = p }

\* C4: with sync_task calls made one after the other, a primary id that has a
\* mapping has exactly one mirror, the one its mapping names; one create_task
\* call made it, before any update_task; every update_task went to the mapped
\* secondary id; and if no call for that id failed, create_task was called once.
C4_SyncIdempotentSeq ==
    \A p \in DOMAIN task_mappings :
        LET m == task_mappings[p]
            creates == { i \in LogOf(p) : sync_log[i].op = "create_task" }
            updates == { i \in LogOf(p) : sync_log[i].op = "update_task" }
        IN  /\ Mirrors(p) = { <<m.secondary_system, m.secondary_task_id>> }
            /\ Cardinality({ i \in creates : sync_log[i].ok }) = 1
            /\ \A i \in updates :
                  /\ sync_log[i].id = m.secondary_task_id
                  /\ \E j \in creates : j < i /\ sync_log[j].ok
            /\ (\A i \in LogOf(p) : sync_log[i].ok) => Cardinality(creates) = 1

\* C4 witness: a second sync_task call for a mapped primary id has updated the mirror
C4_Witness ==
    \E p \in DOMAIN task_mappings :
        \E i \in LogOf(p) : sync_log[i].op = "update_task" /\ sync_log[i].ok

\* C5: at most one mirror task is ever created for a primary task id.
C5_OneMirrorConcurrent ==
    \A p \in KnownIds : Cardinality(Mirrors(p)) <= 1

----------------------------------------------------------------------------
(* Transaction manager properties *)

\* execute_step of manager m has failed and raised
StepFailed(m) == tx[m].pc = "raised"

\* the compensating actions manager m invoked during its last execute_step
RolledBack(m) == SubSeq(rollback_log[m], tx[m].rb_start + 1, Len(rollback_log[m]))

RECURSIVE CompensablePositions(_, _)
\* the positions n, n-1, .. 1 of the steps of `completed` that have a rollback_fn
CompensablePositions(completed, n) ==
    IF n = 0 THEN << >>
    ELSE (IF completed[n].rollback_fn THEN <<n>> ELSE << >>)
         \o CompensablePositions(completed, n - 1)

\* the compensating actions of the last execute_step of manager m were those of
\* the completed steps that have one, in reverse completion order, each once
ReverseOrder(m) ==
    [ i \in 1 .. Len(RolledBack(m)) |-> RolledBack(m)[i].pos ]
      = CompensablePositions(completed_steps[m], Len(completed_steps[m]))

\* manager m ran create_synced_task, and the secondary creation failed after
\* the primary creation had succeeded
SagaSecondaryFailed(m) ==
    /\ StepFailed(m)
    /\ tx[m].n = 2
    /\ completed_steps[m] = << create_synced_task[1] >>
    /\ tx[m].step = create_synced_task[2]

\* C6: when the secondary creation of a transactional two-system creation fails
\* after the primary creation succeeded, the primary task is deleted and
\* TransactionError is raised: the run does not end with the primary task
\* existing and no mirror.
C6_SagaNoOrphan ==
    \A m \in Managers :
        SagaSecondaryFailed(m)
          => /\ "primary" \notin world[m]
             /\ tx[m].raised.type = "TransactionError"

\* C7: when execute_step fails, the compensating actions of exactly the steps
\* completed before it that have one were invoked in reverse completion order,
\* each once, before TransactionError is raised; the failing step was not added
\* to completed_steps and its own compensating action was not invoked.
C7_RollbackOrder ==
    \A m \in Managers :
        StepFailed(m)
          => /\ ReverseOrder(m)
             /\ Len(completed_steps[m]) = tx[m].before
             /\ \A i \in 1 .. Len(RolledBack(m)) : RolledBack(m)[i].pos <= tx[m].before
             /\ tx[m].raised.type = "TransactionError"

\* C8: when a compensating action fails during rollback, the failure is not
\* propagated, the compensating actions of the remaining completed steps are
\* still invoked, and the caller receives the TransactionError of the step
\* that failed.
C8_BestEffortCompensation ==
    \A m \in Managers :
        ( /\ StepFailed(m)
          /\ \E i \in 1 .. Len(RolledBack(m)) : ~RolledBack(m)[i].ok )
          => /\ ReverseOrder(m)
             /\ tx[m].raised.type = "TransactionError"
             /\ tx[m].raised.step = tx[m].step.operation

\* C9: the TransactionError raised by execute_step carries the failing step and
\* the steps whose compensating action was run, in the order of their rollback.
C9_ErrorCarriesRolledBack ==
    \A m \in Managers :
        StepFailed(m)
          => /\ tx[m].raised.type = "TransactionError"
             /\ tx[m].raised.step = tx[m].step.operation
             /\ tx[m].raised.completed_steps
                  = [ i \in 1 .. Len(RolledBack(m)) |-> RolledBack(m)[i].operation ]

----------------------------------------------------------------------------
(* Synchronizer properties: verification and failures *)

\* the two tasks the mapping of p names, as the backends hold them now, agree
\* on status and on description
InSync(p) ==
    LET m == task_mappings[p]
    IN  /\ m.primary_task_id \in DOMAIN store[m.primary_system]
        /\ m.secondary_task_id \in DOMAIN store[m.secondary_system]
        /\ store[m.primary_system][m.primary_task_id].status =
              store[m.secondary_system][m.secondary_task_id].status
        /\ store[m.primary_system][m.primary_task_id].description =
              store[m.secondary_system][m.secondary_task_id].description

C22_FailedSyncKeepsMappings ==
    [][ \/ sync_calls' = sync_calls
        \/ \A c \in Procs :
             LET v == sync_calls[c]
                 w == sync_calls'[c]
             IN  (v.pc \in {"get", "create", "update"} /\ w.pc = "done") =>
                    /\ w.result \in {"SyncError", "mapping"}
                    /\ v.pc = "get" => w.result = "SyncError"
                    /\ w.result = "SyncError" => task_mappings' = task_mappings
                    /\ w.result = "mapping" => w.task \in DOMAIN task_mappings'
                    /\ (Len(sync_log') > Len(sync_log) /\ ~sync_log'[Len(sync_log')].ok) =>
                          w.result = "SyncError"
      ]_vars

\* C22 witness: a re-sync of a mapped primary id has failed in update_task
C22_Witness ==
    \E c \in Procs :
        /\ sync_calls[c].pc = "done"
        /\ sync_calls[c].result = "SyncError"
        /\ sync_calls[c].task \in DOMAIN task_mappings
        /\ Len(sync_log) > 0
        /\ sync_log[Len(sync_log)].op = "update_task"
        /\ sync_log[Len(sync_log)].primary = sync_calls[c].task
        /\ ~sync_log[Len(sync_log)].ok

\* what a SyncError has to say about the failed call
SyncErrorContext == {"task_id", "primary_system", "secondary_system"}

\* C23: every failure of a backend call made by sync_task or by verify_sync
\* reaches the caller as a SyncError that carries the task id and both system
\* names, never as the error of the backend.
C23_FailuresWrapped ==
    /\ \A c \in Procs : verify_calls[c].result # "BackendError"
    /\ \A c \in Procs :
          sync_calls[c].result = "SyncError" => SyncErrorContext \subseteq SyncErrorDetails

\* the ids a mapping ties together
IdsOf(p) == {p, task_mappings[p].secondary_task_id}

\* C24: no task id appears in more than one mapping, as primary or as secondary id.
C24_OneCounterpart ==
    \A p, q \in DOMAIN task_mappings : p # q => IdsOf(p) \cap IdsOf(q) = {}

----------------------------------------------------------------------------
(* Call workflow properties *)

CommitmentOutcomes == {"invalid", "rejected", "completed", "error"}

\* C25: for a valid commitment that requires approval, a backend create_task
\* call is made only once its approval request has come back approved, and
\* when the approver's answer is a denial the outcome is "rejected" with no
\* create_task call.
C25_ApprovalGating ==
    /\ \A i \in flow.create_calls :
          flow.commitments[i].requires_approval => i \in flow.approved
    /\ \A i \in DOMAIN flow.results :
          LET commitment == flow.commitments[i]
          IN  ( /\ commitment.requires_approval
                /\ validate_commitment(commitment) = "True"
                /\ flow.approver = "deny" ) =>
                 flow.results[i].status = "rejected" /\ i \notin flow.create_calls

\* C26: when handle_new_call has returned, every task it created has a mapping
\* and its two sides agree, as verify_sync would find.
C26_BothSystems ==
    flow.ended = "returned" =>
        \A t \in flow.created : HasMapping(t) /\ InSync(t)

\* C27: the outcomes built for a call are one per commitment, in detection
\* order, each one of invalid, rejected, completed, error; once the loop is
\* over there is one for every commitment, whatever failed on the way; and no
\* step of the call removes or changes an outcome already recorded.
C27_OneOutcomeEach ==
    /\ [] ( /\ Len(flow.results) <= Len(flow.commitments)
            /\ \A i \in DOMAIN flow.results :
                  /\ flow.results[i].commitment = flow.commitments[i]
                  /\ flow.results[i].status \in CommitmentOutcomes
            /\ (flow.detected /\ flow.pc \in {"summary", "error_msg", "done"}) =>
                  Len(flow.results) = Len(flow.commitments) )
    /\ [][ \/ flow' = flow
           \/ flow'.pc = "get_call"
           \/ /\ Len(flow'.results) >= Len(flow.results)
              /\ SubSeq(flow'.results, 1, Len(flow.results)) = flow.results
         ]_vars

\* C27 witness: the first of two commitments ended as "error" and the second
\* one has its outcome too
C27_Witness ==
    /\ Len(flow.results) = 2
    /\ flow.results[1].status = "error"
    /\ flow.pc = "done"

\* C28: a call whose summary could not be sent still returns its results.
C28_NotificationsFireAndForget ==
    (flow.summary_failed /\ flow.pc = "done") =>
        flow.ended = "returned" /\ flow.delivered = flow.results

----------------------------------------------------------------------------
(* Commitment detector properties *)

C30_TargetSystem ==
    detector.returned =>
        /\ \A k \in DOMAIN detector.commitments :
              detector.commitments[k].system \in {"NowCerts", "CRM"}
        /\ \A i \in DOMAIN detector.matches :
              detector.matches[i].what # "" =>
                 \E k \in DOMAIN detector.commitments :
                    /\ detector.commitments[k].description = detector.matches[i].what
                    /\ detector.commitments[k].system = detector.matches[i].pattern_dict.system


\* the lines of the transcript an agent speaks, whatever the case of the prefix
SpokenByAgent(line) == line.speaker \in {"agent", "Agent", "AGENT"}

\* how many observations the registry holds for a pattern
Observations(p) ==
    stats[pattern_id(p.registered, p.type)].matches
        + stats[pattern_id(p.registered, p.type)].false_positives

\* the agent lines of the transcript that hold a match of a pattern
AgentLinesOf(p) ==
    { i \in DOMAIN detector.lines :
        SpokenByAgent(detector.lines[i]) /\ detector.lines[i].match.pattern_dict = p }

\* C31: once detect_commitments has returned, every agent line that matches
\* the policy-update pattern with something to do has yielded a commitment
\* that requires approval and has priority 'high', whatever its `when` and
\* the wording of its description.
C31_PolicyUpdateHighApproval ==
    detector.returned =>
        \A i \in DOMAIN detector.lines :
            ( /\ SpokenByAgent(detector.lines[i])
              /\ detector.lines[i].match.pattern_dict.type = "policy_update"
              /\ detector.lines[i].match.what # "" ) =>
                \E k \in DOMAIN detector.commitments :
                    /\ detector.commitments[k].source_text = detector.lines[i].match
                    /\ detector.commitments[k].requires_approval
                    /\ detector.commitments[k].priority = "high"

\* the priority the scoring rule gives: 3 / 2 / 1 for the base priority, one
\* more for a due date less than a day out, one more for an urgency keyword
ScoredPriority(base_priority, near, urgent) ==
    LET score == (IF base_priority = "high" THEN 3 ELSE IF base_priority = "normal" THEN 2 ELSE 1)
                 + (IF near THEN 1 ELSE 0) + (IF urgent THEN 1 ELSE 0)
    IN  IF score >= 4 THEN "high" ELSE IF score >= 2 THEN "normal" ELSE "low"

\* whether a due date resolved from this text can be less than a day out, and
\* whether it can be a day or more out: "tomorrow" at 9:00 is either
NearDue(when) == IF when = "today" THEN {TRUE} ELSE IF when = "soon" THEN {FALSE} ELSE BOOLEAN

\* C32: once detect_commitments has returned, every agent line with something
\* to do has yielded a commitment whose priority is the one the scoring rule
\* gives for its pattern's base priority, its due date and its description.
C32_PriorityScoring ==
    detector.returned =>
        \A i \in DOMAIN detector.lines :
            (SpokenByAgent(detector.lines[i]) /\ detector.lines[i].match.what # "") =>
                \E k \in DOMAIN detector.commitments, near \in NearDue(detector.lines[i].match.when) :
                    /\ detector.commitments[k].source_text = detector.lines[i].match
                    /\ detector.commitments[k].priority =
                          ScoredPriority(detector.lines[i].match.pattern_dict.priority, near,
                                         detector.lines[i].match.what = "docs asap")

\* C33: every commitment returned has the message of an agent line as its
\* source text, and the registry holds no more observations of a pattern than
\* there are agent lines matching it: the lines of other speakers add none.
C33_AgentLinesOnly ==
    /\ \A k \in DOMAIN detector.commitments :
          \E i \in DOMAIN detector.lines :
              /\ SpokenByAgent(detector.lines[i])
              /\ detector.commitments[k].source_text = detector.lines[i].match
    /\ \A p \in PatternDicts : Observations(p) <= Cardinality(AgentLinesOf(p))

\* C33 witness: a transcript with a matching line of the customer and a
\* matching line of the agent has been processed and the agent's is recorded
C33_Witness ==
    /\ detector.returned
    /\ \E i, j \in DOMAIN detector.lines :
          /\ ~SpokenByAgent(detector.lines[i])
          /\ detector.lines[i].match.what # ""
          /\ SpokenByAgent(detector.lines[j])
          /\ Observations(detector.lines[j].match.pattern_dict) >= 1

\* C34: detect_commitments returns for every transcript, and once it has,
\* every match of an agent line has been through the loop, the ones after a
\* match that met an exception included: each is recorded in the registry,
\* and the commitments returned are the ones of the matches that made one.
C34_PartialFailure ==
    detector.returned =>
        /\ \A p \in PatternDicts : Observations(p) >= Cardinality(AgentLinesOf(p))
        /\ Len(detector.commitments) =
              Cardinality({ i \in DOMAIN detector.matches :
                              detector.matches[i].what # "" /\ ~MatchRaises(detector.matches[i]) })

\* C34 witness: the first of two agent matches met an exception and the
\* second one is recorded all the same
C34_Witness ==
    /\ detector.returned
    /\ Len(detector.matches) = 2
    /\ MatchRaises(detector.matches[1])
    /\ detector.matches[2].pattern_dict # detector.matches[1].pattern_dict
    /\ Observations(detector.matches[2].pattern_dict) = 1

----------------------------------------------------------------------------
(* Pattern registry properties *)

----------------------------------------------------------------------------
(* Task manager properties *)

\* C36: the status history of every task tracked by the task manager moves
\* along the transition table only: each entry and the next one have the
\* same status or form a pair of the table, so no history leaves a terminal
\* status or goes from PENDING to COMPLETED.
C36_ValidatedTransitions ==
    \A t \in DOMAIN tasks :
        LET h == tasks[t].status_history
        IN  \A i \in 1 .. (Len(h) - 1) :
                \/ h[i].status = h[i + 1].status
                \/ <<h[i].status, h[i + 1].status>> \in TransitionTable


----------------------------------------------------------------------------
(* process_call properties *)

\* C37: when the wrapper around process_call gives up on a call whose last
\* step ended with a RetryableError, process_call has been invoked as many
\* times as the configuration allows and the caller gets the RetryableError.
C37_TransientRetried ==
    ( /\ retry.pc = "raised"
      /\ pcall.pc = "ended"
      /\ pcall.steps # << >>
      /\ pcall.steps[Len(pcall.steps)] = "RetryableError" ) =>
        /\ retry.invoked = retry.cfg.max_attempts
        /\ retry.error = "RetryableError"


----------------------------------------------------------------------------
(* Properties of the transaction manager over its lifetime *)

\* C38: over the lifetime of a transaction manager the compensating action
\* of a completed step is invoked at most once: the rollback log of a manager
\* never holds two entries for the same completed step.
C38_CompensateOnce ==
    \A m \in Managers :
        \A i, j \in DOMAIN rollback_log[m] :
            i # j => rollback_log[m][i].pos # rollback_log[m][j].pos

----------------------------------------------------------------------------
(* Properties of update_task calls that were suspended *)

\* call c is an update_task that resumes in this step, the backend having answered
ResumesUpdate(c) ==
    /\ calls[c].pc = "await"
    /\ calls[c].op = "update_task"
    /\ \E ok \in BOOLEAN : Resume(c, ok)

\* C39: the entry an update_task appends to the status history when it
\* resumes has the status of the entry before it or forms a pair of the
\* transition table with it, and a task whose tracked status is terminal
\* when the call resumes keeps that status.
C39_NoStaleTransition ==
    [][ \/ tasks' = tasks
        \/ \A c \in Procs :
              ResumesUpdate(c) =>
                 LET t == calls[c].task
                 IN  /\ \/ tasks'[t].status = tasks[t].status
                        \/ <<tasks[t].status, tasks'[t].status>> \in TransitionTable
                     /\ tasks[t].status \in Terminal => tasks'[t].status = tasks[t].status ]_vars

\* C40: every tracked task has a status history that starts with PENDING and
\* ends with the task's current status, and an update_task without a 'status'
\* field leaves the current status of its task as it is.
C40_TrackerConsistency ==
    /\ [](\A t \in DOMAIN tasks :
             LET h == tasks[t].status_history
             IN  /\ Len(h) >= 1
                 /\ h[1].status = "PENDING"
                 /\ h[Len(h)].status = tasks[t].status)
    /\ [][ \/ tasks' = tasks
           \/ \A c \in Procs :
                 (ResumesUpdate(c) /\ calls[c].status = NoStatus) =>
                     tasks'[calls[c].task].status = tasks[calls[c].task].status ]_vars

====
